---- MODULE Spec2Model ----
(***************************************************************************)
(* State-machine model of the AgentBay plugin core:                        *)
(*   - LightweightAgentBayClient (src/utils/agentbay_client.py), one step  *)
(*     per remote SDK call, with another actor deleting sessions between   *)
(*     the steps;                                                          *)
(*   - run_browser_action (src/utils/browser_automation.py), the caller    *)
(*     thread, the worker thread and the wall clock.                       *)
(***************************************************************************)
EXTENDS Integers, Sequences, FiniteSets, TLC

VARIABLES
    sessions,          \* backend: ids of the sessions that exist remotely
    api_key,           \* LightweightAgentBayClient.api_key
    client_created,    \* LightweightAgentBayClient._client is not None
    op,                \* the client operation in progress ("none" when idle)
    pc,                \* position inside the operation
    arg_session,       \* its session_id argument (0: the operation takes none)
    arg_command,       \* execute_command's command argument: "str" or "none" (None)
    session_handle,    \* local `session`: "unset", "session" or "null" (None)
    trace,             \* the SDK calls issued by the operation in progress
    ret,               \* the SimpleResult it returned
    raised,            \* an exception left the operation
    all_session_ids,   \* list_sessions: accumulated ids
    page,              \* list_sessions: page number of the next request
    listBackend,       \* how the backend serves client.list in this call
    backendTotal,      \* the total a "paged" backend reports
    lastPage,          \* list_sessions: the page response handled last
    ret_payload,       \* the sessions and count carried by a list_sessions envelope
    session_info,      \* local `session_info` of a session-scoped operation
    labels,            \* backend: the label each session was created with
    created_by_plugin, \* the sessions that create_session created
    \* run_browser_action
    callerPc,          \* the calling thread: idle, waiting, shutdown, returned
    workerPc,          \* the worker thread of the ThreadPoolExecutor
    clock,             \* seconds since future.result(timeout=60) began to wait
    future,            \* the Future: pending, result or exception
    invocation,        \* number of run_browser_action calls so far
    automation_count,  \* number of AgentBayBrowserAutomation objects built so far
    automation,        \* the object `automation` of _run: its id and its fields
    usedBy,            \* for each automation object, the invocations that used it
    stepResult,        \* what action_func returned ("raised" when it raised)
    runResult,         \* what _run hands to the Future ("raised": an exception)
    closeResult,       \* what automation.close() returned
    calls,             \* per invocation: how often each step of the worker ran
    attempted,         \* close(): which releases it attempted
    timedOut,          \* future.result raised TimeoutError
    pendingRet,        \* what run_browser_action is about to return
    bridgeRet,         \* what run_browser_action returned
    callerInLoop,      \* the caller of run_browser_action is inside a running event loop
    loop,              \* the event loop of run_in_new_thread: its invocation and state
    ranOn,             \* where _run's construct, step and close ran: thread and loop
    \* utils/validators.py
    vfun,              \* the validator called ("none": no call)
    vin,               \* its argument
    vout,              \* whether it has returned, and what
    \* provider/agentbay.py
    credentials,       \* credentials.get('api_key') handed to _validate_credentials
    providerPc,        \* idle, probe (about to call list_sessions), done
    probes,            \* number of client.list_sessions() calls it made
    test_result,       \* what the probe returned
    verdict,           \* how _validate_credentials ended: returned or which error
    \* tools/*.py
    tool,              \* the tool adapter whose _invoke is running ("none": none)
    tool_parameters,   \* its tool_parameters
    toolPc,            \* idle, validate, client, execute, respond, done
    messages,          \* the messages it has yielded, in order
    client_built,      \* get_agentbay_client(...) was called in this invocation
    remote_calls,      \* number of client operations called in this invocation
    result,            \* what the operation returned
    sent_command,      \* the command handed to client.execute_command (<<>>: none)
    \* utils/browser_automation.py: analyze_page_elements
    dom,               \* the page: for each tag, the elements query_selector_all finds
    elements_result    \* the BrowserActionResult of analyze_page_elements

clientVars == <<sessions, api_key, client_created, op, pc, arg_session, arg_command,
                session_handle, trace, ret, raised, all_session_ids, page,
                listBackend, backendTotal, lastPage, ret_payload, session_info,
                labels, created_by_plugin>>

bridgeVars == <<callerPc, workerPc, clock, future, invocation, automation_count,
                automation, usedBy, stepResult, runResult, closeResult, calls,
                attempted, timedOut, pendingRet, bridgeRet, callerInLoop, loop, ranOn>>

validatorVars == <<vfun, vin, vout>>

\* everything outside the client and the bridge
providerVars == <<credentials, providerPc, probes, test_result, verdict>>

toolVars ==
    <<tool, tool_parameters, toolPc, messages, client_built, remote_calls, result, sent_command>>

analyzeVars == <<dom, elements_result>>

outerVars == <<validatorVars, providerVars, toolVars, analyzeVars>>

vars == <<clientVars, bridgeVars, outerVars>>

----------------------------------------------------------------------------
(* Bounds of the model *)

NumSessions == 2
MaxTotal == 250
MaxPages == 4
MaxInvocations == 2
TickSeconds == 20
MaxIdLen == 6
TimeoutMargin == 2
MaxKeyLen == 11
MaxShotBytes == 2
MaxSpaces == 2
MaxPieces == 4
MaxElements == 2

(* Program constants *)

limit == 100
Ceiling == 60
MinTimeoutMs == 1000
MaxTimeoutMs == 300000
MinKeyLen == 10

SessionIds == 1..NumSessions

Null == "null"

----------------------------------------------------------------------------
(* Operations of the client *)

SessionOps ==
    {"execute_command", "delete_session", "read_file", "write_file", "list_directory",
     "run_code", "browser_initialize", "get_installed_apps", "list_windows"}

ClientOps == SessionOps \cup {"create_session", "get_session_info", "list_sessions"}

\* execute_command and write_file build Session(self.client, session_id) locally;
\* every other session-scoped operation asks the backend: self.client.get(id).session
UsesHandleLookup(o) == o \in SessionOps \ {"execute_command", "write_file"}

\* the dataclass SimpleResult
SimpleResult(s, d, e) == [success |-> s, data |-> d, error |-> e]

\* no SimpleResult yet
NoResult == [success |-> FALSE, data |-> "unset", error |-> "unset"]

\* What one SDK call can do: return a result object or raise.
RemoteResults ==
    [kind : {"result"}, success : BOOLEAN, payload : {Null, "payload"},
     error_message : {Null, "err"}]

Raise == [kind |-> "raise", success |-> FALSE, payload |-> Null, error_message |-> "exc"]

\* the backend answers truthfully about a session that does not exist:
\* no successful result for it
Outcomes(live) ==
    {r \in RemoteResults : live \/ ~r.success} \cup {Raise}

\* get_session on a session that does not exist: never success together with data
GetSessionOutcomes(live) ==
    {r \in RemoteResults : live \/ ~(r.success /\ r.payload # Null)} \cup {Raise}

OutcomeKind(r) ==
    IF r.kind = "raise" THEN "raise" ELSE IF r.success THEN "ok" ELSE "fail"

\* one SDK call in the trace: what was called, for which session, which page, how it
\* ended, whether the session existed then, whether a payload came with the answer
Call(c, s, p, r, live) ==
    [call |-> c, sid |-> s, page |-> p, outcome |-> OutcomeKind(r), live |-> live,
     carried |-> r.kind = "result" /\ r.payload # Null]

\* the message of each operation's `except Exception` handler
ErrorPrefix(o) ==
    CASE o = "create_session" -> "Unknown error: exc"
      [] o = "get_session_info" -> "Failed to get session info: exc"
      [] o = "execute_command" -> "Command execution failed: exc"
      [] o = "delete_session" -> "Session deletion failed: exc"
      [] o = "list_sessions" -> "Failed to list sessions: exc"
      [] o = "read_file" -> "Failed to read file: exc"
      [] o = "write_file" -> "Failed to write file: exc"
      [] o = "list_directory" -> "Failed to list directory: exc"
      [] o = "run_code" -> "Code execution failed: exc"
      [] o = "browser_initialize" -> "Browser initialization failed: exc"
      [] o = "get_installed_apps" -> "Failed to get app list: exc"
      [] OTHER -> "Failed to list windows: exc"

\* the data of a successful envelope, by operation
DataOf(o) ==
    CASE o = "create_session" -> "created"
      [] o = "get_session_info" -> "session_data"
      [] o = "execute_command" -> "output"
      [] o = "delete_session" -> "deleted"
      [] o = "list_sessions" -> "sessions"
      [] o = "read_file" -> "content"
      [] o = "write_file" -> "written"
      [] o = "list_directory" -> "files"
      [] o = "run_code" -> "result"
      [] o = "browser_initialize" -> "endpoint"
      [] o = "get_installed_apps" -> "apps"
      [] OTHER -> "windows"

exception_envelope(o) == SimpleResult(FALSE, Null, ErrorPrefix(o))

\* as in_try, with the remote action moved out of the try block
in_try_action_outside(o, where) ==
    ~(o = "execute_command" /\ where = "entry") /\ where # "act"

\* Is the statement at `where` of operation o inside o's try block?
\* execute_command slices command[:100] in the log line before its try.
in_try(o, where) == ~(o = "execute_command" /\ where = "entry")

\* as get_session_info_envelope, without the test of result.data
get_session_info_envelope_trusting(r) ==
    IF r.kind = "raise" THEN exception_envelope("get_session_info")
    ELSE IF ~r.success THEN SimpleResult(FALSE, Null, "Failed to query session info")
    ELSE SimpleResult(TRUE, DataOf("get_session_info"), Null)

\* get_session_info: the envelope for what client.get_session did
get_session_info_envelope(r) ==
    IF r.kind = "raise" THEN exception_envelope("get_session_info")
    ELSE IF ~r.success THEN SimpleResult(FALSE, Null, "Failed to query session info")
    ELSE IF r.payload # Null THEN SimpleResult(TRUE, DataOf("get_session_info"), Null)
    ELSE SimpleResult(FALSE, Null, "Session does not exist or is inaccessible")

\* as action_envelope, with data built whenever the result carries a payload
action_envelope_unmasked(o, r) ==
    IF r.kind = "raise" THEN exception_envelope(o)
    ELSE SimpleResult(r.success,
                      IF r.payload # Null THEN DataOf(o) ELSE Null,
                      IF ~r.success THEN r.error_message ELSE Null)

\* the envelope a session-scoped operation builds from the action's result
action_envelope(o, r) ==
    IF r.kind = "raise" THEN IF in_try(o, "act") THEN exception_envelope(o) ELSE NoResult
    ELSE SimpleResult(r.success,
                      IF r.success THEN DataOf(o) ELSE Null,
                      IF ~r.success THEN r.error_message ELSE Null)

\* as next_after_check, without the early return
next_after_check_unchecked(o, info) ==
    IF UsesHandleLookup(o) THEN "handle" ELSE "act"

\* `if not session_info.success: return session_info`, else on to the handle or the action
next_after_check(o, info) ==
    IF ~info.success THEN "done"
    ELSE IF UsesHandleLookup(o) THEN "handle" ELSE "act"


\* create_session: AgentBayError and every other Exception have their own handler
RaiseAgentBayError ==
    [kind |-> "raise", success |-> FALSE, payload |-> Null, error_message |-> "AgentBayError"]

create_session_envelope(r) ==
    IF r.kind = "raise"
    THEN IF r.error_message = "AgentBayError"
         THEN SimpleResult(FALSE, Null, "AgentBay API error: exc")
         ELSE exception_envelope("create_session")
    ELSE IF r.success THEN SimpleResult(TRUE, DataOf("create_session"), Null)
    ELSE SimpleResult(FALSE, Null, r.error_message)

\* browser_initialize: session.browser.get_endpoint_url() returns a URL, returns
\* nothing usable (None or ""), or raises
EndpointOutcomes == {"url", "empty", "raise"}

browser_initialize_envelope(e) ==
    IF e = "raise" THEN exception_envelope("browser_initialize")
    ELSE SimpleResult(TRUE, IF e = "url" THEN "endpoint" ELSE "endpoint_empty", Null)

\* as dify_labels_list, with another key
dify_labels_other_key == "plugin=true"

\* create_session: dify_labels = {"dify_plugin": "true"}
dify_labels_create == "dify_plugin=true"

\* list_sessions: dify_labels = {"dify_plugin": "true"}
dify_labels_list == "dify_plugin=true"

\* a label this plugin never attaches, and the label of a session that does not exist
ForeignLabel == "team=other"

NoLabel == "none"

----------------------------------------------------------------------------
(* list_sessions *)

NoPage ==
    [kind |-> "none", success |-> FALSE, ids |-> <<>>, idsNone |-> FALSE,
     hasTotal |-> FALSE, total |-> 0]

NoPayload == [sessions |-> <<>>, count |-> 0]

Min(a, b) == IF a < b THEN a ELSE b

\* how many ids a backend holding T labelled sessions puts on page p
PagedCount(T, p) ==
    IF T > (p - 1) * limit THEN Min(limit, T - (p - 1) * limit) ELSE 0

\* a backend that holds T labelled sessions, numbered 1..T, and serves them in
\* consecutive pages of up to `limit`
PagedResponse(T, p) ==
    [kind |-> "result", success |-> TRUE,
     ids |-> [i \in 1..PagedCount(T, p) |-> (p - 1) * limit + i],
     idsNone |-> FALSE, hasTotal |-> TRUE, total |-> T]

\* a backend that answers each page request as it likes: n ids (numbered on from
\* the accLen the client holds), session_ids None, any total or no total attribute,
\* a failed result, an exception
AdversarialResponses(accLen) ==
    { [kind |-> "result", success |-> su,
       ids |-> [i \in 1..n |-> accLen + i],
       idsNone |-> none, hasTotal |-> ht, total |-> t] :
         su \in BOOLEAN, n \in {0, 1, limit}, none \in BOOLEAN, ht \in BOOLEAN,
         t \in {0, limit, MaxPages * limit + 1} }
    \cup { [NoPage EXCEPT !.kind = "raise"] }

\* the ids of a set, in ascending order
RECURSIVE Ascending(_)
Ascending(S) ==
    IF S = {} THEN <<>>
    ELSE LET m == CHOOSE x \in S : \A y \in S : x <= y
         IN <<m>> \o Ascending(S \ {m})

\* the backend's directory: the sessions that exist and carry the label asked for,
\* served in pages of up to `limit`; the request may also fail or raise
DirectoryResponses(label, p) ==
    LET hits == Ascending({s \in sessions : labels[s] = label})
        first == (p - 1) * limit + 1
        last == Min(p * limit, Len(hits))
    IN {[kind |-> "result", success |-> TRUE, ids |-> SubSeq(hits, first, last),
         idsNone |-> FALSE, hasTotal |-> TRUE, total |-> Len(hits)],
        [NoPage EXCEPT !.kind = "result"],
        [NoPage EXCEPT !.kind = "raise"]}

\* a backend that never serves an empty page and reports, with every page, a total
\* above the number of ids the client then holds
EndlessResponses(accLen) ==
    {[kind |-> "result", success |-> TRUE, ids |-> [i \in 1..n |-> accLen + i],
      idsNone |-> FALSE, hasTotal |-> TRUE, total |-> accLen + n + 1] : n \in {1, limit}}

ListResponses(mode, T, p, accLen) ==
    IF mode = "paged" THEN {PagedResponse(T, p)}
    ELSE IF mode = "endless" THEN EndlessResponses(accLen)
    ELSE IF mode = "directory" THEN DirectoryResponses(dify_labels_list, p)
    ELSE {r \in AdversarialResponses(accLen) :
            /\ r.idsNone => Len(r.ids) = 0
            /\ ~r.hasTotal => r.total = 0}

\* `if hasattr(result, 'session_ids') and result.session_ids: all_session_ids.extend(...)`
extend_ids(acc, r) == IF ~r.idsNone /\ Len(r.ids) > 0 THEN acc \o r.ids ELSE acc

\* as loop_breaks, with > where the code has >=
loop_breaks_strict(accLen, total, idsEmpty) == accLen > total \/ idsEmpty

\* as loop_breaks, without the test for an empty page
loop_breaks_no_empty(accLen, total, idsEmpty) == accLen >= total

\* as loop_breaks, with a cap of two full pages on the ids collected
loop_breaks_capped(accLen, total, idsEmpty) ==
    accLen >= total \/ idsEmpty \/ accLen >= 2 * limit

\* `if len(all_session_ids) >= total or not result.session_ids: break`
loop_breaks(accLen, total, idsEmpty) == accLen >= total \/ idsEmpty

\* as next_page, asking for the same page again
same_page(p) == p

\* `page += 1`
next_page(p) == p + 1

\* the session list and count of a successful list_sessions envelope
session_list(acc) == [i \in 1..Len(acc) |-> [session_id |-> acc[i], status |-> "active"]]

list_payload(acc) == [sessions |-> session_list(acc), count |-> Len(session_list(acc))]

\* as list_step, with a failed page request ending the loop like an empty page: the
\* ids collected so far are returned
list_step_partial(acc, p, r) ==
    LET acc2 == extend_ids(acc, r)
        total == IF r.hasTotal THEN r.total ELSE Len(r.ids)
        stay == [pc |-> "page", acc |-> acc2, page |-> next_page(p), ret |-> NoResult,
                 payload |-> NoPayload]
    IN IF r.kind = "raise" \/ (~r.hasTotal /\ r.idsNone)
       THEN [stay EXCEPT !.pc = "done", !.page = p,
                         !.ret = exception_envelope("list_sessions")]
       ELSE IF ~r.success \/ loop_breaks(Len(acc2), total, r.idsNone \/ Len(r.ids) = 0)
       THEN [stay EXCEPT !.pc = "done", !.page = p,
                         !.acc = IF r.success THEN acc2 ELSE acc,
                         !.ret = SimpleResult(TRUE, DataOf("list_sessions"), Null),
                         !.payload = list_payload(IF r.success THEN acc2 ELSE acc)]
       ELSE stay

\* One turn of the `while True` loop for the response r: where the loop goes, what
\* it has accumulated, which page comes next, and what is returned when it ends.
list_step(acc, p, r) ==
    LET acc2 == extend_ids(acc, r)
        \* `result.total if hasattr(result, 'total') else len(result.session_ids)`;
        \* len(None) raises TypeError
        totalRaises == ~r.hasTotal /\ r.idsNone
        total == IF r.hasTotal THEN r.total ELSE Len(r.ids)
        stay == [pc |-> "page", acc |-> acc2, page |-> next_page(p), ret |-> NoResult,
                 payload |-> NoPayload]
    IN IF r.kind = "raise"
       THEN [stay EXCEPT !.pc = "done", !.page = p,
                         !.ret = exception_envelope("list_sessions")]
       ELSE IF ~r.success
       THEN [stay EXCEPT !.pc = "done", !.page = p, !.acc = acc,
                         !.ret = SimpleResult(FALSE, Null, "Failed to query session list")]
       ELSE IF totalRaises
       THEN [stay EXCEPT !.pc = "done", !.page = p,
                         !.ret = exception_envelope("list_sessions")]
       ELSE IF loop_breaks(Len(acc2), total, r.idsNone \/ Len(r.ids) = 0)
       THEN [stay EXCEPT !.pc = "done", !.page = p,
                         !.ret = SimpleResult(TRUE, DataOf("list_sessions"), Null),
                         !.payload = list_payload(acc2)]
       ELSE stay

----------------------------------------------------------------------------
(* run_browser_action and AgentBayBrowserAutomation *)

\* the import of playwright at module load succeeded (the plugin's declared dependency)
PLAYWRIGHT_AVAILABLE == TRUE

\* the dataclass BrowserActionResult
BrowserActionResult(s, d, e) == [success |-> s, data |-> d, error |-> e]

NoBrowserResult == [success |-> FALSE, data |-> "unset", error |-> "unset"]

\* stands for "action_func raised" where its result would be
RaisedResult == [success |-> FALSE, data |-> "unset", error |-> "raised"]

ConnectFailed == BrowserActionResult(FALSE, Null, "Failed to connect to browser: exc")

\* what run_browser_action returns from its `except Exception` handler
BridgeFailed == BrowserActionResult(FALSE, Null, "Failed to run browser operation: exc")

\* what one automation method returns: its success envelope, or the failure envelope of
\* its own `except Exception` handler
StepEnvelopes ==
    {BrowserActionResult(TRUE, "data", Null), BrowserActionResult(FALSE, Null, "step failed: exc")}

\* AgentBayBrowserAutomation.__init__: a new object, nothing connected
NewAutomation(id) == [id |-> id, playwright |-> FALSE, browser |-> FALSE, page |-> FALSE]

NoAutomation == NewAutomation(0)

\* `automation = AgentBayBrowserAutomation(endpoint_url)` builds a new object each time
new_automation_id(count) == count + 1

\* as run_closes, with close() after the step instead of in a finally
run_closes_unless_raised(stepRaised) == ~stepRaised

\* `try: ... finally: await automation.close()` in _run: close runs whether or not the
\* step raised
run_closes(stepRaised) == TRUE

\* as close_swallows, with close() letting the exception out
close_propagates == FALSE

\* close() catches every Exception of its body and returns a failure result
close_swallows == TRUE

\* `with ThreadPoolExecutor() as executor`: leaving the block calls
\* executor.shutdown(wait=True), which joins the worker thread
shutdown_waits == TRUE

\* AgentBayBrowserAutomation.close, for an object a, when browser.close() ends as bc and
\* playwright.stop() as ps ("ok" or "raise"): the object afterwards, the result, and
\* which of the two releases were attempted
close(a, bc, ps) ==
    LET browserRaises == a.browser /\ bc = "raise"
        a1 == IF a.browser /\ ~browserRaises
              THEN [a EXCEPT !.browser = FALSE, !.page = FALSE] ELSE a
        stopTried == ~browserRaises /\ a.playwright
        stopRaises == stopTried /\ ps = "raise"
        a2 == IF stopTried /\ ~stopRaises THEN [a1 EXCEPT !.playwright = FALSE] ELSE a1
    IN [automation |-> a2,
        result |-> IF browserRaises \/ stopRaises
                   THEN BrowserActionResult(FALSE, Null, "Failed to close browser: exc")
                   ELSE BrowserActionResult(TRUE, "closed", Null),
        attempted |-> [browser |-> a.browser, playwright |-> stopTried]]

\* as run_where, with the usual shortcut: run on the caller's thread unless a loop is
\* already running there
run_where_unless_idle(inLoop) ==
    IF inLoop THEN [thread |-> "worker", loop |-> "new"]
    ELSE [thread |-> "caller", loop |-> "caller"]

\* "always run in new thread": executor.submit(run_in_new_thread), and there
\* asyncio.new_event_loop(); the caller's own loop is never looked at
run_where(inLoop) == [thread |-> "worker", loop |-> "new"]

Nowhere == [thread |-> "none", loop |-> "none"]

NoRuns == [construct |-> Nowhere, step |-> Nowhere, close |-> Nowhere]

NoLoop == [id |-> 0, state |-> "none"]

NoCalls == [construct |-> 0, step |-> 0, connect |-> 0, action |-> 0, close |-> 0]

NoAttempt == [browser |-> FALSE, playwright |-> FALSE]

----------------------------------------------------------------------------
(* utils/validators.py *)

\* A Python value handed to a validator: its type, the characters of a str, the
\* value of a number in tenths (so that 999.5 and 1000.5 can be told apart).
PyStr(cs) == [type |-> "str", chars |-> cs, tenths |-> 0]
PyNone == [type |-> "none", chars |-> <<>>, tenths |-> 0]
PyInt(n) == [type |-> "int", chars |-> <<>>, tenths |-> 10 * n]
PyFloat(t) == [type |-> "float", chars |-> <<>>, tenths |-> t]
PyBool(b) == [type |-> "bool", chars |-> <<>>, tenths |-> IF b THEN 10 ELSE 0]
PyNaN == [type |-> "nan", chars |-> <<>>, tenths |-> 0]
PyList == [type |-> "list", chars |-> <<"a">>, tenths |-> 0]

\* `not x`
falsy(v) ==
    CASE v.type = "str" -> Len(v.chars) = 0
      [] v.type = "none" -> TRUE
      [] v.type \in {"int", "float", "bool"} -> v.tenths = 0
      [] OTHER -> FALSE

\* Characters, named: "e_acute" is U+00E9 and "arabic_3" is U+0663, for both of which
\* str.isalnum() is true although neither is in [A-Za-z0-9]
AsciiAlnum == {"a", "b", "c", "Z", "1", "2", "3", "4", "5"}
isalnum_chars == AsciiAlnum \cup {"e_acute", "arabic_3"}

\* str.isalnum(): every character alphanumeric and at least one character
isalnum(cs) == Len(cs) > 0 /\ \A i \in 1..Len(cs) : cs[i] \in isalnum_chars

\* str.replace(c, '')
replace(cs, c) == SelectSeq(cs, LAMBDA x : x # c)

NotReturned == [returned |-> FALSE, value |-> FALSE]
Returned(b) == [returned |-> TRUE, value |-> b]

validate_session_id(v) ==
    IF falsy(v) \/ v.type # "str" THEN FALSE
    ELSE Len(v.chars) > 5 /\ isalnum(replace(replace(v.chars, "-"), "_"))

\* as validate_timeout, with the upper end of the range left out
validate_timeout_open(v) ==
    IF v.type \notin {"int", "float", "bool", "nan"} THEN FALSE
    ELSE IF v.type = "nan" THEN FALSE
    ELSE MinTimeoutMs * 10 <= v.tenths /\ v.tenths < MaxTimeoutMs * 10

\* isinstance(timeout_ms, (int, float)) holds for bool and for nan too; every
\* comparison with nan is false
validate_timeout(v) ==
    IF v.type \notin {"int", "float", "bool", "nan"} THEN FALSE
    ELSE IF v.type = "nan" THEN FALSE
    ELSE MinTimeoutMs * 10 <= v.tenths /\ v.tenths <= MaxTimeoutMs * 10

\* the arguments tried: every string of up to MaxIdLen characters over a small
\* alphabet, some longer ids, and values that are not strings
IdAlphabet == {"a", "-", "_", "e_acute", "!"}

SessionIdInputs ==
    {PyStr(cs) : cs \in UNION {[1..n -> IdAlphabet] : n \in 0..MaxIdLen}}
    \cup {PyStr(<<"a", "b", "c", "1", "2", "3", "4", "5">>),
          PyStr(<<"Z", "-", "1", "_", "a", "arabic_3", "b">>),
          PyStr(<<"a", "b", "c", " ", "1", "2", "3">>),
          PyNone, PyInt(0), PyInt(12345678), PyList}

\* timeouts within TimeoutMargin of either end of the range, in steps of a half
NearEnds ==
    {10 * MinTimeoutMs + 5 * k : k \in (0 - 2 * TimeoutMargin)..(2 * TimeoutMargin)}
    \cup {10 * MaxTimeoutMs + 5 * k : k \in (0 - 2 * TimeoutMargin)..(2 * TimeoutMargin)}

TimeoutInputs ==
    {PyInt(t \div 10) : t \in {u \in NearEnds : u % 10 = 0}}
    \cup {PyFloat(t) : t \in NearEnds}
    \cup {PyInt(0), PyInt(30000), PyInt(0 - 1000), PyFloat(0 - 5), PyBool(TRUE), PyBool(FALSE),
          PyNaN, PyNone, PyList,
          PyStr(<<"5", "1", "2", "3">>)}

\* re: the part of Python's regular expressions that validators.py uses.  A pattern is
\* a sequence of items: a literal character, \s+, \s*, .* (no newline), .*? with DOTALL
Lit(c) == [kind |-> "lit", c |-> c]
SpacePlus == [kind |-> "s+", c |-> ""]
SpaceStar == [kind |-> "s*", c |-> ""]
DotStar == [kind |-> ".*", c |-> ""]
DotAllLazy == [kind |-> ".*?", c |-> ""]

\* the literal items for the characters of a string
Lits(cs) == [i \in 1..Len(cs) |-> Lit(cs[i])]

\* re.IGNORECASE: the capital letters of the model and what they fold to
capitals ==
    [R |-> "r", M |-> "m", F |-> "f", S |-> "s", C |-> "c", I |-> "i", P |-> "p", T |-> "t",
     J |-> "j", A |-> "a", V |-> "v"]

lower(c) == IF c \in DOMAIN capitals THEN capitals[c] ELSE c

\* as s_class, a blank only
s_class_blank == {" "}

\* what \s matches, of the characters of the model
s_class == {" ", "\t", "\n"}

\* whether the repeated item of that kind takes the character c
takes(kind, c) ==
    CASE kind \in {"s+", "s*"} -> c \in s_class
      [] kind = ".*" -> c # "\n"
      [] OTHER -> TRUE

\* the positions at which a match of items pi.. of pat that starts at position ci of cs
\* can end (the position after its last character)
RECURSIVE match_ends(_, _, _, _)
match_ends(pat, pi, cs, ci) ==
    IF pi > Len(pat) THEN {ci}
    ELSE LET item == pat[pi]
             least == IF item.kind = "s+" THEN 1 ELSE 0
             run == {k \in (ci + least)..(Len(cs) + 1) :
                       \A j \in ci..(k - 1) : takes(item.kind, cs[j])}
         IN CASE item.kind = "lit" ->
                   IF ci <= Len(cs) /\ lower(cs[ci]) = item.c
                   THEN match_ends(pat, pi + 1, cs, ci + 1)
                   ELSE {}
              [] OTHER -> UNION {match_ends(pat, pi + 1, cs, k) : k \in run}

\* re.search(pattern, string, re.IGNORECASE)
re_search(pat, cs) == \E i \in 1..(Len(cs) + 1) : match_ends(pat, 1, cs, i) # {}

\* as First, the greatest
Last(S) == CHOOSE x \in S : \A y \in S : x >= y

\* the least of a set of positions
First(S) == CHOOSE x \in S : \A y \in S : x <= y

\* re.sub(pattern, '', string): from the left, each match is cut out and the scan goes
\* on behind it; the patterns used have one lazy item at most, so that the match taken
\* at a position is the one that ends first
RECURSIVE re_sub(_, _, _)
re_sub(pat, cs, i) ==
    IF i > Len(cs) THEN <<>>
    ELSE LET ends == match_ends(pat, 1, cs, i)
         IN IF ends # {} /\ First(ends) > i
            THEN re_sub(pat, cs, First(ends))
            ELSE <<cs[i]>> \o re_sub(pat, cs, i + 1)

\* DANGEROUS_PATTERNS; r':(){ :|:& };:' is, as a regular expression, the alternation
\* of ':' '()' '{ :' (the group is empty) and ':& };:'
DANGEROUS_PATTERNS ==
    <<Lits(<<"r", "m">>) \o <<SpacePlus>> \o Lits(<<"-", "r", "f">>) \o <<SpacePlus, Lit("/")>>,
      Lits(<<"m", "k", "f", "s", ".">>),
      Lits(<<"d", "d">>) \o <<SpacePlus>> \o Lits(<<"i", "f", "=">>) \o <<DotStar>>
          \o Lits(<<"o", "f", "=">>),
      Lits(<<":", "{", " ", ":">>),
      Lits(<<":", "&", " ", "}", ";", ":">>),
      Lits(<<"c", "u", "r", "l">>) \o <<DotStar, Lit("|"), SpaceStar>> \o Lits(<<"s", "h">>),
      Lits(<<"w", "g", "e", "t">>) \o <<DotStar, Lit("|"), SpaceStar>> \o Lits(<<"s", "h">>),
      Lits(<<"s", "u", "d", "o">>) \o <<SpacePlus>> \o Lits(<<"r", "m">>),
      Lits(<<"c", "h", "m", "o", "d">>) \o <<SpacePlus>> \o Lits(<<"7", "7", "7">>)>>

dangerous(cs) == \E n \in 1..Len(DANGEROUS_PATTERNS) : re_search(DANGEROUS_PATTERNS[n], cs)

validate_command(v) ==
    IF falsy(v) \/ v.type # "str" THEN FALSE
    ELSE ~dangerous(v.chars)

sanitize_content(v) ==
    IF v.type # "str" THEN <<>>
    ELSE LET script == Lits(<<"<", "s", "c", "r", "i", "p", "t">>) \o <<DotAllLazy>>
                         \o Lits(<<"<", "/", "s", "c", "r", "i", "p", "t", ">">>)
             scheme == Lits(<<"j", "a", "v", "a", "s", "c", "r", "i", "p", "t", ":">>)
         IN re_sub(scheme, re_sub(script, v.chars, 1), 1)

\* sequences: the concatenation of a sequence of sequences
RECURSIVE Concat(_)
Concat(parts) == IF parts = <<>> THEN <<>> ELSE Head(parts) \o Concat(Tail(parts))

\* commands: something before, the three tokens of `rm -rf /` in some casing, or
\* tokens near them, with up to MaxSpaces characters of whitespace between them, and
\* something behind; other commands; values that are not strings
Spaces == UNION {[1..n -> {" ", "\t"}] : n \in 0..MaxSpaces}

CommandInputs ==
    {PyStr(Concat(<<pre, rm, s1, rf, s2, root, post>>)) :
       pre \in {<<>>, <<"l", "s", ";">>}, rm \in {<<"r", "m">>, <<"R", "m">>, <<"r", "M">>},
       s1 \in Spaces, rf \in {<<"-", "r", "f">>, <<"-", "R", "F">>, <<"-", "r">>},
       s2 \in Spaces \cup {<<"\n">>}, root \in {<<"/">>, <<"~">>},
       post \in {<<>>, <<"t", "m", "p">>}}
    \cup {PyStr(cs) : cs \in {<<>>, <<"l", "s">>, <<"s", "u", "d", "o", " ", "r", "m", " ", "x">>,
                              <<"c", "h", "m", "o", "d", " ", "7", "7", "7", " ", "x">>,
                              <<"m", "k", "f", "s", ".", "x">>,
                              <<"d", "d", " ", "i", "f", "=", "a", " ", "o", "f", "=", "b">>,
                              <<":", "{", " ", ":">>, <<":", "&", " ", "}", ";", ":">>,
                              <<"c", "u", "r", "l", " ", "x", "|", " ", "s", "h">>,
                              <<"c", "u", "r", "l", " ", "x", "\n", "|", "s", "h">>,
                              <<"w", "g", "e", "t", " ", "x", "|", "s", "h">>}}
    \cup {PyNone, PyInt(0), PyInt(5), PyList}

\* content: up to MaxPieces pieces, each a tag, a part of the scheme or plain text
Pieces ==
    {<<"<", "s", "c", "r", "i", "p", "t">>, <<"<", "S", "c", "r", "I", "P", "T", ">">>,
     <<"<", "/", "s", "c", "r", "i", "p", "t", ">">>, <<"<", "/", "S", "C", "R", "I", "P", "T", ">">>,
     <<"j", "a", "v", "a">>, <<"s", "c", "r", "i", "p", "t", ":">>,
     <<"J", "a", "v", "a", "S", "c", "r", "i", "p", "t", ":">>, <<"x">>, <<"\n">>}

ContentInputs ==
    {PyStr(Concat(ps)) : ps \in UNION {[1..n -> Pieces] : n \in 0..MaxPieces}}
    \cup {PyStr(<<"<", "s", "c", "r", "i", "p", "t", ">", "a", "l", "e", "r", "t", "(", "1", ")",
                  "<", "/", "s", "c", "r", "i", "p", "t", ">", "h", "e", "l", "l", "o">>),
          PyStr(<<"j", "a", "v", "a", "s", "c", "r", "i", "p", "t", ":",
                  "d", "o", "E", "v", "i", "l", "(", ")">>),
          PyNone, PyInt(5), PyList}

ValidatorInputs(f) ==
    CASE f = "validate_session_id" -> SessionIdInputs
      [] f = "validate_timeout" -> TimeoutInputs
      [] f = "validate_command" -> CommandInputs
      [] OTHER -> ContentInputs

apply_validator(f, v) ==
    CASE f = "validate_session_id" -> validate_session_id(v)
      [] f = "validate_timeout" -> validate_timeout(v)
      [] f = "validate_command" -> validate_command(v)
      [] OTHER -> sanitize_content(v)

----------------------------------------------------------------------------
(* provider/agentbay.py: AgentbayProvider._validate_credentials *)

\* str.strip(): leading and trailing whitespace removed
RECURSIVE lstrip(_)
lstrip(cs) == IF Len(cs) > 0 /\ Head(cs) = " " THEN lstrip(Tail(cs)) ELSE cs

RECURSIVE rstrip(_)
rstrip(cs) ==
    IF Len(cs) > 0 /\ cs[Len(cs)] = " " THEN rstrip(SubSeq(cs, 1, Len(cs) - 1)) ELSE cs

\* as strip, trimming nothing
strip_nothing(cs) == cs

strip(cs) == rstrip(lstrip(cs))

\* The words _validate_credentials looks for in a failure message; a message is
\* modelled by the set of those it contains ("unauthorized" contains "auth").
Keywords == {"auth", "unauthorized", "forbidden", "key", "network", "connection"}

Messages == {m \in SUBSET Keywords : "unauthorized" \in m => "auth" \in m}

\* what client.list_sessions() hands back: it never raises, a failure carries a message
NoProbe == [success |-> FALSE, error |-> {"unset"}]

ProbeResults == {[success |-> TRUE, error |-> {}]} \cup {[success |-> FALSE, error |-> m] : m \in Messages}

\* the handler `except Exception as e` around the probe, for str(e).lower() = msg
classify(msg) ==
    IF "auth" \in msg \/ "unauthorized" \in msg \/ "forbidden" \in msg
    THEN "credential error"
    ELSE IF "network" \in msg \/ "connection" \in msg
    THEN "connectivity error"
    ELSE "generic error"

\* lines 42-56: a failed probe raises only when its message has 'auth' or 'key' in it;
\* what is raised ('API Key validation failed: ' + error) lands in the handler
after_probe(r) ==
    IF r.success THEN "accepted"
    ELSE IF "auth" \in r.error \/ "key" \in r.error
    THEN classify(r.error \cup {"key"})
    ELSE "accepted"

\* lines 27-33 and 61-63: the checks before the probe
before_probe(k) ==
    IF falsy(k) THEN "API Key is required"
    ELSE IF k.type # "str" THEN "unexpected error"       \* no .strip(): AttributeError
    ELSE IF Len(strip(k.chars)) < MinKeyLen THEN "API Key format appears to be invalid"
    ELSE "probe"

KeyAlphabet == {"k", " "}

KeyInputs ==
    {PyStr(cs) : cs \in UNION {[1..n -> KeyAlphabet] : n \in 0..MaxKeyLen}}
    \cup {PyNone, PyInt(12345678)}

NoProviderCall ==
    /\ credentials = PyNone
    /\ providerPc = "idle"
    /\ probes = 0
    /\ test_result = NoProbe
    /\ verdict = "none"

----------------------------------------------------------------------------
(* tools/*.py: the tool adapters *)

Tools ==
    {"session_create", "session_delete", "session_list", "session_connect",
     "command_execute", "code_execute", "file_operations", "browser_automation",
     "computer_operations", "mobile_operations"}

ALLOWED_IMAGE_IDS ==
    {"linux_latest", "browser_latest", "code_latest", "windows_latest", "mobile_latest"}

validate_image_id(image_id) == image_id \in ALLOWED_IMAGE_IDS

\* the SUPPORTED_ACTIONS / SUPPORTED_LANGUAGES tables of the adapters
SUPPORTED_ACTIONS(t) ==
    CASE t = "file_operations" -> {"read", "write", "list"}
      [] t = "browser_automation" ->
           {"navigate", "click", "type", "scroll", "screenshot", "get_content",
            "analyze_elements", "wait_element", "wait"}
      [] t = "computer_operations" ->
           {"click_mouse", "move_mouse", "drag_mouse", "scroll", "input_text", "press_keys",
            "screenshot", "get_screen_size", "get_cursor_position"}
      [] t = "mobile_operations" ->
           {"tap", "swipe", "input_text", "send_key", "screenshot",
            "get_clickable_elements", "get_all_elements"}
      [] OTHER -> {"none"}

SUPPORTED_LANGUAGES ==
    {"python", "javascript", "java", "go", "bash", "cpp", "c", "php", "ruby", "rust"}

MOUSE_BUTTONS == {"left", "right", "middle", "double_left"}

SCROLL_DIRECTIONS == {"up", "down", "left", "right"}

KEY_CODES == {"home", "back", "volume_up", "volume_down", "power", "menu"}

\* tool_parameters.  A string parameter is "" when missing or empty; coords says whether
\* every coordinate of the action was given; command and working_directory are
\* character sequences, <<>> when missing.
NoParameters ==
    [session_id |-> PyStr(<<>>), action |-> "none", command |-> <<>>, working_directory |-> <<>>, timeout_ms |-> PyInt(30000),
     image_id |-> "linux_latest", code |-> "", language |-> "python", file_path |-> "",
     url |-> "", selector |-> "", text |-> "", coords |-> TRUE, keys |-> "",
     button |-> "left", direction |-> "up", key |-> ""]

\* the messages: text, blob, json, variable.  role tells an error text from the rest,
\* keys are the keys of a json (the name of a variable), bytes the length of the binary
\* data carried
Text(role) == [type |-> "text", role |-> role, keys |-> {}, bytes |-> 0]
Blob(n) == [type |-> "blob", role |-> "result", keys |-> {}, bytes |-> n]
Json(keys, n) == [type |-> "json", role |-> "result", keys |-> keys, bytes |-> n]
Variable(name) == [type |-> "variable", role |-> "result", keys |-> {name}, bytes |-> 0]

\* `if not session_id` and `if not validate_session_id(session_id)`
session_id_errors(p) ==
    IF falsy(p.session_id) THEN <<Text("error")>>
    ELSE IF ~validate_session_id(p.session_id) THEN <<Text("error")>>
    ELSE <<>>

unsupported(t, p) == p.action \notin SUPPORTED_ACTIONS(t)

\* BrowserAutomationTool._validate_operation_params: an if/elif chain, so the branch
\* for 'type' after the branch for ['click', 'type', 'wait_element'] is never taken
browser_validate_operation_params(p) ==
    IF p.action = "navigate" THEN (IF p.url = "" THEN <<Text("error")>> ELSE <<>>)
    ELSE IF p.action \in {"click", "type", "wait_element"}
    THEN (IF p.selector = "" THEN <<Text("error")>> ELSE <<>>)
    ELSE IF p.action = "type"
    THEN (IF p.text = "" THEN <<Text("error")>> ELSE <<>>)
    ELSE <<>>

file_validate_operation_params(p) ==
    IF p.action \in {"read", "write"} /\ p.file_path = "" THEN <<Text("error")>> ELSE <<>>

\* ComputerOperationsTool._validate_action_params: a sequence of ifs
computer_validate_action_params(p) ==
    IF p.action \in {"click_mouse", "move_mouse", "scroll"} /\ ~p.coords THEN <<Text("error")>>
    ELSE IF p.action = "drag_mouse" /\ ~p.coords THEN <<Text("error")>>
    ELSE IF p.action = "input_text" /\ p.text = "" THEN <<Text("error")>>
    ELSE IF p.action = "press_keys" /\ p.keys = "" THEN <<Text("error")>>
    ELSE IF p.action \in {"click_mouse", "drag_mouse"} /\ p.button \notin MOUSE_BUTTONS
    THEN <<Text("error")>>
    ELSE IF p.action = "scroll" /\ p.direction \notin SCROLL_DIRECTIONS THEN <<Text("error")>>
    ELSE <<>>

mobile_validate_action_params(p) ==
    IF p.action = "tap" /\ ~p.coords THEN <<Text("error")>>
    ELSE IF p.action = "swipe" /\ ~p.coords THEN <<Text("error")>>
    ELSE IF p.action = "input_text" /\ p.text = "" THEN <<Text("error")>>
    ELSE IF p.action = "send_key" /\ p.key = "" THEN <<Text("error")>>
    ELSE IF p.action = "send_key" /\ p.key \notin KEY_CODES THEN <<Text("error")>>
    ELSE <<>>

\* the first failing check of an action-driven adapter, given its parameter check
action_tool_errors(t, p, param_errors) ==
    IF session_id_errors(p) # <<>> THEN session_id_errors(p)
    ELSE IF unsupported(t, p) THEN <<Text("error"), Text("error")>>
    ELSE param_errors

\* What the parameter validation of _invoke yields before it returns; <<>> when every
\* check passes.
validation_messages(t, p) ==
    CASE t = "session_create" ->
           IF ~validate_image_id(p.image_id) THEN <<Text("error"), Text("error")>> ELSE <<>>
      [] t = "session_list" -> <<>>
      [] t \in {"session_delete", "session_connect"} -> session_id_errors(p)
      [] t = "command_execute" ->
           IF session_id_errors(p) # <<>> THEN session_id_errors(p)
           ELSE IF p.command = <<>> THEN <<Text("error")>>
           ELSE IF ~validate_command(PyStr(p.command)) THEN <<Text("error"), Text("error")>>
           ELSE IF ~validate_timeout(p.timeout_ms) THEN <<Text("error"), Text("error")>>
           ELSE <<>>
      [] t = "code_execute" ->
           IF session_id_errors(p) # <<>> THEN session_id_errors(p)
           ELSE IF p.code = "" THEN <<Text("error")>>
           ELSE IF p.language \notin SUPPORTED_LANGUAGES
           THEN <<Text("error"), Text("error")>>
           ELSE <<>>
      [] t = "file_operations" -> action_tool_errors(t, p, file_validate_operation_params(p))
      [] t = "browser_automation" ->
           action_tool_errors(t, p, browser_validate_operation_params(p))
      [] t = "computer_operations" ->
           action_tool_errors(t, p, computer_validate_action_params(p))
      [] OTHER -> action_tool_errors(t, p, mobile_validate_action_params(p))

\* CommandExecuteTool._invoke, lines 73-80: the command handed to client.execute_command
combine(p) ==
    IF p.working_directory # <<>>
    THEN <<"c", "d", " ">> \o p.working_directory \o <<" ", "&", "&", " ">> \o p.command
    ELSE p.command

\* BrowserAutomationTool._show_operation_details
show_operation_details(p) ==
    CASE p.action \in {"navigate", "type", "scroll"} -> <<Text("info"), Text("info")>>
      [] p.action \in {"click", "screenshot"} -> <<Text("info")>>
      [] OTHER -> <<>>

\* the text messages an adapter yields between building the client and the call
announcement(t, p) ==
    CASE t \in {"session_create", "session_list", "session_connect"} -> <<>>
      [] t = "session_delete" -> <<Text("info")>>
      [] t \in {"command_execute", "code_execute"} -> <<Text("info"), Text("info"), Text("info")>>
      [] t = "browser_automation" -> <<Text("info"), Text("info")>> \o show_operation_details(p)
      [] OTHER -> <<Text("info"), Text("info")>>

\* result.data of an operation: the keys of the dict and the length of the binary
\* value under 'screenshot_data', if there is one
Data(keys, n) == [keys |-> keys, bytes |-> n]

NoData == Data({}, 0)

\* a result as the adapters see it (SimpleResult, BrowserActionResult); count is the
\* 'count' of a session listing
Result(s, d, c) == [success |-> s, data |-> d, count |-> c, reached |-> TRUE]

NoToolResult == [success |-> FALSE, data |-> NoData, count |-> 0, reached |-> FALSE]

\* AgentBayBrowserAutomation.screenshot: the data of a successful screenshot of n bytes
screenshot_data(n) == Data({"screenshot_data", "format", "full_page", "size"}, n)

\* what the operation called by the adapter may return
ToolResults(t, p) ==
    {Result(FALSE, NoData, 0)} \cup
    CASE t = "session_list" -> {Result(TRUE, Data({"sessions", "count"}, 0), c) : c \in {0, 1}}
      [] t = "browser_automation" /\ p.action = "screenshot" ->
           {Result(TRUE, screenshot_data(n), 0) : n \in 0..MaxShotBytes}
      [] t = "browser_automation" /\ p.action = "navigate" ->
           {Result(TRUE, Data({"url", "title"}, 0), 0)}
      [] t = "browser_automation" /\ p.action = "get_content" ->
           {Result(TRUE, Data({"content", "content_length"}, 0), 0)}
      [] OTHER -> {Result(TRUE, Data({"message"}, 0), 0)}

\* how many operations of the client the adapter calls: the browser tool's 'wait' only
\* sleeps
client_operations(t, p) ==
    IF t = "browser_automation" /\ p.action = "wait" THEN 0 ELSE 1

\* as json_data, with nothing left out
json_data_unfiltered(action, data) == data

\* lines 135-142: `{k: v for k, v in result.data.items() if k != 'screenshot_data'}` for
\* a screenshot, all of result.data otherwise
json_data(action, data) ==
    IF action = "screenshot" /\ data.keys # {}
    THEN Data(data.keys \ {"screenshot_data"}, 0)
    ELSE data

\* BrowserAutomationTool._set_action_variables
set_action_variables(action, data) ==
    CASE action = "navigate" ->
           (IF "url" \in data.keys THEN <<Variable("browser_current_url")>> ELSE <<>>)
           \o (IF "title" \in data.keys THEN <<Variable("browser_page_title")>> ELSE <<>>)
      [] action = "screenshot" ->
           IF "output_path" \in data.keys THEN <<Variable("browser_screenshot_path")>> ELSE <<>>
      [] action = "get_content" ->
           IF "content" \in data.keys THEN <<Variable("browser_page_content")>> ELSE <<>>
      [] OTHER -> <<>>

\* BrowserAutomationTool._invoke, lines 106-171: what follows the operation
browser_response(p, r) ==
    IF r.success
    THEN LET j == json_data(p.action, r.data)
         IN <<Text("result")>>
            \o (IF p.action = "screenshot" /\ "screenshot_data" \in r.data.keys
                   /\ r.data.bytes > 0
                THEN <<Blob(r.data.bytes)>> ELSE <<>>)
            \o <<Json({"session_id", "action", "success", "operation_time"} \cup j.keys,
                      IF "screenshot_data" \in j.keys THEN j.bytes ELSE 0)>>
            \o <<Variable("browser_action"), Variable("browser_success")>>
            \o set_action_variables(p.action, r.data)
    ELSE <<Text("failure"),
           Json({"session_id", "action", "success", "error", "operation_time"}, 0),
           Variable("browser_success")>>

\* the kinds of message the other adapters yield after the operation, in order; the
\* session list tool reads session['image_id'] of the first entry, which the client's
\* listing does not carry, and ends in its exception handler
response(t, p, r) ==
    CASE t = "browser_automation" -> browser_response(p, r)
      [] t = "session_list" ->
           IF ~r.success THEN <<Text("failure")>>
           ELSE IF r.count = 0
           THEN <<Text("result"), Json(r.data.keys, 0), Variable("session_count")>>
           ELSE <<Text("exception")>>
      [] t \in {"code_execute", "file_operations", "computer_operations", "mobile_operations"} ->
           IF r.success
           THEN <<Text("result"), Json(r.data.keys, 0), Variable("action"), Variable("success")>>
           ELSE <<Text("failure"), Json({"error"}, 0), Variable("success")>>
      [] OTHER ->
           IF r.success
           THEN <<Text("result"), Json(r.data.keys, 0), Variable("first"), Variable("second")>>
           ELSE <<Text("failure")>>

\* the parameters tried for each adapter
SessionIdChoices ==
    {PyStr(<<>>), PyStr(<<"a", "b", "c">>),
     PyStr(<<"a", "b", "c", "1", "2", "3", "4", "5">>),
     PyStr(<<"a", "b", "c", "-", "e_acute", "1">>)}

Blank == {"", "x"}

\* commands: none, harmless, on the deny-list, harmless with a pipe into sh; working
\* directories: none, harmless, one that carries a command, one named after a tool
CommandChoices ==
    {<<>>, <<"l", "s">>, <<"r", "m", " ", "-", "r", "f", " ", "/">>, <<"x", "|", "s", "h">>}

DirectoryChoices ==
    {<<>>, <<"/", "t", "m", "p">>, <<"/", ";", "r", "m", " ", "-", "r", "f", " ", "/">>,
     <<"/", "c", "u", "r", "l">>}

ToolInputs(t) ==
    CASE t = "session_create" ->
           {[NoParameters EXCEPT !.image_id = i] : i \in ALLOWED_IMAGE_IDS \cup {"macos_latest"}}
      [] t = "session_list" -> {NoParameters}
      [] t \in {"session_delete", "session_connect"} ->
           {[NoParameters EXCEPT !.session_id = s] : s \in SessionIdChoices}
      [] t = "command_execute" ->
           {[NoParameters EXCEPT !.session_id = s, !.command = c, !.working_directory = d,
                                 !.timeout_ms = ms] :
              s \in SessionIdChoices, c \in CommandChoices, d \in DirectoryChoices,
              ms \in {PyInt(MinTimeoutMs - 1), PyInt(30000), PyInt(MaxTimeoutMs + 1)}}
      [] t = "code_execute" ->
           {[NoParameters EXCEPT !.session_id = s, !.code = c, !.language = l] :
              s \in SessionIdChoices, c \in Blank, l \in {"python", "cobol"}}
      [] t = "file_operations" ->
           {[NoParameters EXCEPT !.session_id = s, !.action = a, !.file_path = f] :
              s \in SessionIdChoices, a \in SUPPORTED_ACTIONS(t) \cup {"delete"}, f \in Blank}
      [] t = "browser_automation" ->
           {[NoParameters EXCEPT !.session_id = s, !.action = a, !.url = u, !.selector = sel,
                                 !.text = x] :
              s \in SessionIdChoices, a \in SUPPORTED_ACTIONS(t) \cup {"hover"},
              u \in Blank, sel \in Blank, x \in Blank}
      [] t = "computer_operations" ->
           {[NoParameters EXCEPT !.session_id = s, !.action = a, !.coords = c, !.text = x,
                                 !.keys = x, !.button = b, !.direction = b] :
              s \in SessionIdChoices, a \in SUPPORTED_ACTIONS(t) \cup {"hover"},
              c \in BOOLEAN, x \in Blank, b \in {"left", "diagonal"}}
      [] OTHER ->
           {[NoParameters EXCEPT !.session_id = s, !.action = a, !.coords = c, !.text = x,
                                 !.key = k] :
              s \in SessionIdChoices, a \in SUPPORTED_ACTIONS(t) \cup {"hover"},
              c \in BOOLEAN, x \in Blank, k \in {"", "home", "escape"}}

NoToolCall ==
    /\ tool = "none"
    /\ tool_parameters = NoParameters
    /\ toolPc = "idle"
    /\ messages = <<>>
    /\ client_built = FALSE
    /\ remote_calls = 0
    /\ result = NoToolResult
    /\ sent_command = <<>>

----------------------------------------------------------------------------
(* utils/browser_automation.py: AgentBayBrowserAutomation.analyze_page_elements *)

\* element_types when the caller gives none
element_types == <<"input", "button", "a", "form">>

\* An element of the page: what get_attribute returns for id, name and class (None is
\* "none"), and whether one of the calls on the element raises.
Element(id, name, class, raises) == [id |-> id, name |-> name, class |-> class, raises |-> raises]

PlainElement == Element("none", "none", "none", FALSE)

BrokenElement == Element("none", "none", "none", TRUE)

Elements ==
    {Element(id, name, class, FALSE) :
       id \in {"none", "", "main"}, name \in {"none", "q"}, class \in {"none", "a b"}}
    \cup {BrokenElement}

\* the pages of the model: up to MaxElements input elements, a button at most, and
\* an element without attributes at most for each of the other tags
Pages ==
    {[input |-> i, button |-> b, a |-> a, form |-> f] :
       i \in UNION {[1..n -> Elements] : n \in 0..MaxElements},
       b \in UNION {[1..n -> Elements] : n \in 0..1},
       a \in {<<>>, <<PlainElement>>}, f \in {<<>>, <<PlainElement>>}}

\* `if x:` for an attribute value
given(x) == x # "none" /\ x # ""

\* element_class.replace(' ', '.') for the class values of the model
dotted(class) == IF class = "a b" THEN "a.b" ELSE class

Selector(kind, value, n) == [kind |-> kind, value |-> value, n |-> n]

\* as possible_selectors, with the structural selector in front
possible_selectors_fallback_first(tag_name, i, e) ==
    <<Selector("nth-child", tag_name, i + 1)>>
    \o (IF given(e.id) THEN <<Selector("id", e.id, 0)>> ELSE <<>>)
    \o (IF given(e.name) THEN <<Selector("name", e.name, 0)>> ELSE <<>>)
    \o (IF given(e.class) THEN <<Selector("class", dotted(e.class), 0)>> ELSE <<>>)

\* lines 273-282: '#id', "[name='name']", '.class' with its blanks turned into dots,
\* 'tag:nth-child(i+1)'
possible_selectors(tag_name, i, e) ==
    (IF given(e.id) THEN <<Selector("id", e.id, 0)>> ELSE <<>>)
    \o (IF given(e.name) THEN <<Selector("name", e.name, 0)>> ELSE <<>>)
    \o (IF given(e.class) THEN <<Selector("class", dotted(e.class), 0)>> ELSE <<>>)
    \o <<Selector("nth-child", tag_name, i + 1)>>

\* element_info of the element at index i (from 0) of the elements of a tag
element_info(tag_name, i, e) ==
    [index |-> i, tag |-> tag_name, id |-> e.id, name |-> e.name, class |-> e.class,
     possible_selectors |-> possible_selectors(tag_name, i, e)]

\* the inner loop: element_list after elements i.. (from 0) of the tag were handled;
\* an element whose analysis raises is skipped
RECURSIVE element_list(_, _, _)
element_list(tag_name, elements, i) ==
    IF i >= Len(elements) THEN <<>>
    ELSE (IF elements[i + 1].raises THEN <<>>
          ELSE <<element_info(tag_name, i, elements[i + 1])>>)
         \o element_list(tag_name, elements, i + 1)

elements_info(d) == [t \in DOMAIN d |-> element_list(t, d[t], 0)]

\* sum(len(elements) for elements in elements_info.values())
RECURSIVE sum_len(_, _)
sum_len(info, tags) ==
    IF tags = <<>> THEN 0 ELSE Len(info[Head(tags)]) + sum_len(info, Tail(tags))

NotAnalyzed == [returned |-> FALSE, success |-> FALSE, elements |-> <<>>, total_elements |-> 0]

\* what analyze_page_elements returns: the result of connect() when that fails,
\* a failure when a call on the page raises, the elements otherwise
analyze_page_elements(d, outcome) ==
    IF outcome # "ok"
    THEN [returned |-> TRUE, success |-> FALSE, elements |-> <<>>, total_elements |-> 0]
    ELSE [returned |-> TRUE, success |-> TRUE, elements |-> elements_info(d),
          total_elements |-> sum_len(elements_info(d), element_types)]

NoAnalysis ==
    /\ dom = [input |-> <<>>, button |-> <<>>, a |-> <<>>, form |-> <<>>]
    /\ elements_result = NotAnalyzed

----------------------------------------------------------------------------
\* the client after construction, run_browser_action not yet called
ProgramInit ==
    /\ sessions \in SUBSET SessionIds
    /\ api_key = "key"
    /\ client_created = FALSE
    /\ op = "none"
    /\ pc = "idle"
    /\ arg_session = 0
    /\ arg_command = "str"
    /\ session_handle = "unset"
    /\ trace = <<>>
    /\ ret = NoResult
    /\ raised = FALSE
    /\ all_session_ids = <<>>
    /\ page = 0
    /\ listBackend = "none"
    /\ backendTotal = 0
    /\ lastPage = NoPage
    /\ ret_payload = NoPayload
    /\ session_info = NoResult
    /\ labels \in {f \in [SessionIds -> {dify_labels_create, ForeignLabel, NoLabel}] :
                      \A s \in SessionIds : f[s] = NoLabel <=> s \notin sessions}
    /\ created_by_plugin = {s \in sessions : labels[s] = dify_labels_create}
    /\ callerPc = "idle"
    /\ workerPc = "none"
    /\ clock = 0
    /\ future = "pending"
    /\ invocation = 0
    /\ automation_count = 0
    /\ automation = NoAutomation
    /\ usedBy = [a \in 1..MaxInvocations |-> {}]
    /\ stepResult = NoBrowserResult
    /\ runResult = NoBrowserResult
    /\ closeResult = NoBrowserResult
    /\ calls = NoCalls
    /\ attempted = NoAttempt
    /\ timedOut = FALSE
    /\ pendingRet = NoBrowserResult
    /\ bridgeRet = NoBrowserResult
    /\ callerInLoop = FALSE
    /\ loop = NoLoop
    /\ ranOn = NoRuns

\* no validator call in progress
NoValidatorCall ==
    /\ vfun = "none"
    /\ vin = [type |-> "none", chars |-> <<>>, tenths |-> 0]
    /\ vout = NotReturned

Init == ProgramInit /\ NoValidatorCall /\ NoProviderCall /\ NoToolCall /\ NoAnalysis

listVars == <<all_session_ids, page, listBackend, backendTotal, lastPage, ret_payload>>

threadVars == <<callerInLoop, loop, ranOn>>

otherVars == <<api_key, op, arg_session, arg_command>>

----------------------------------------------------------------------------
(* The client's operations, one action per SDK call *)

\* A session-scoped operation, or get_session_info, is called.
CallSessionOp(o, s, c) ==
    /\ pc = "idle"
    /\ callerPc = "idle"
    /\ o \in SessionOps \cup {"get_session_info"}
    /\ c = "none" => o = "execute_command"
    /\ op' = o
    /\ arg_session' = s
    /\ arg_command' = c
    /\ IF c = "none" /\ ~in_try(o, "entry")
       THEN /\ pc' = "done"          \* TypeError: 'NoneType' object is not subscriptable
            /\ raised' = TRUE
       ELSE /\ pc' = "check"
            /\ raised' = FALSE
    /\ UNCHANGED <<sessions, labels, created_by_plugin, api_key, client_created, session_handle, trace, ret,
                   session_info, listVars, bridgeVars, outerVars>>

\* get_session_info: self.client.get_session(session_id), at the start of every
\* session-scoped operation and as an operation of its own
GetSessionInfo ==
    /\ pc = "check"
    /\ \E r \in GetSessionOutcomes(arg_session \in sessions) :
        LET info == get_session_info_envelope(r)
            nxt == IF op = "get_session_info" THEN "done"
                   ELSE next_after_check(op, info)
        IN /\ trace' = Append(trace, Call("get_session", arg_session, 0, r,
                                          arg_session \in sessions))
           /\ session_info' = info
           /\ pc' = nxt
           /\ ret' = IF nxt = "done" THEN info ELSE ret
    /\ client_created' = TRUE
    /\ UNCHANGED <<sessions, labels, created_by_plugin, otherVars, raised, session_handle, listVars, bridgeVars, outerVars>>

\* self.client.get(session_id).session: a failed result carries session None
HandleLookup ==
    /\ pc = "handle"
    /\ \E r \in Outcomes(arg_session \in sessions) :
        /\ trace' = Append(trace, Call("get", arg_session, 0, r, arg_session \in sessions))
        /\ IF r.kind = "raise"
           THEN /\ pc' = "done"
                /\ ret' = action_envelope(op, r)
                /\ raised' = ~in_try(op, "act")
                /\ session_handle' = session_handle
           ELSE IF r.success
           THEN /\ pc' = "act"
                /\ ret' = ret
                /\ raised' = raised
                /\ session_handle' = "session"
           ELSE IF op = "delete_session"
           THEN /\ pc' = "act"                  \* self.client.delete(None, ...)
                /\ ret' = ret
                /\ raised' = raised
                /\ session_handle' = "null"
           ELSE /\ pc' = "done"                  \* None.file_system ...: AttributeError
                /\ ret' = action_envelope(op, Raise)
                /\ raised' = ~in_try(op, "act")
                /\ session_handle' = "null"
    /\ client_created' = TRUE
    /\ UNCHANGED <<sessions, labels, created_by_plugin, otherVars, session_info, listVars, bridgeVars, outerVars>>

\* the remote action on the session
Act ==
    /\ pc = "act"
    /\ session_handle # "null"
    /\ \E r \in Outcomes(arg_session \in sessions) :
        /\ trace' = Append(trace, Call(op, arg_session, 0, r, arg_session \in sessions))
        /\ IF op = "browser_initialize" /\ r.kind = "result"
           THEN IF r.success                    \* `if result:`
                THEN pc' = "endpoint" /\ ret' = ret
                ELSE pc' = "done" /\ ret' = SimpleResult(FALSE, Null, "Browser initialization failed")
           ELSE pc' = "done" /\ ret' = action_envelope(op, r)
        /\ raised' = (r.kind = "raise" /\ ~in_try(op, "act"))
        /\ LET deleted == op = "delete_session" /\ r.kind = "result" /\ r.success
           IN /\ sessions' = IF deleted THEN sessions \ {arg_session} ELSE sessions
              /\ labels' = IF deleted THEN [labels EXCEPT ![arg_session] = NoLabel]
                           ELSE labels
              /\ created_by_plugin' = IF deleted THEN created_by_plugin \ {arg_session}
                                      ELSE created_by_plugin
    /\ client_created' = TRUE
    /\ UNCHANGED <<otherVars, session_handle, session_info, listVars, bridgeVars, outerVars>>

\* delete_session after a failed handle lookup: self.client.delete(None, ...) has no
\* session to send a request for; it reports failure or raises
DeleteWithoutHandle ==
    /\ pc = "act"
    /\ session_handle = "null"
    /\ \E r \in Outcomes(FALSE) :
        /\ trace' = Append(trace, Call("delete_none", 0, 0, r, FALSE))
        /\ ret' = action_envelope(op, r)
        /\ raised' = (r.kind = "raise" /\ ~in_try(op, "act"))
    /\ pc' = "done"
    /\ UNCHANGED <<sessions, labels, created_by_plugin, client_created, otherVars, session_handle, session_info,
                   listVars, bridgeVars, outerVars>>

\* browser_initialize: session.browser.get_endpoint_url()
GetEndpointUrl ==
    /\ pc = "endpoint"
    /\ \E e \in EndpointOutcomes :
        /\ trace' = Append(trace, Call("get_endpoint_url", arg_session, 0,
                                       IF e = "raise" THEN Raise
                                       ELSE [kind |-> "result", success |-> TRUE,
                                             payload |-> IF e = "url" THEN "payload" ELSE Null,
                                             error_message |-> Null],
                                       arg_session \in sessions))
        /\ ret' = browser_initialize_envelope(e)
    /\ pc' = "done"
    /\ UNCHANGED <<sessions, labels, created_by_plugin, client_created, otherVars, raised, session_handle,
                   session_info, listVars, bridgeVars, outerVars>>

CallCreateSession ==
    /\ pc = "idle"
    /\ callerPc = "idle"
    /\ op' = "create_session"
    /\ pc' = "create"
    /\ UNCHANGED <<sessions, labels, created_by_plugin, api_key, client_created, arg_session, arg_command, raised,
                   session_handle, trace, ret, session_info, listVars, bridgeVars, outerVars>>

\* self.client.create(params): a success creates a session under a fresh id
CreateSession ==
    /\ pc = "create"
    /\ \E r \in RemoteResults \cup {Raise, RaiseAgentBayError} :
        /\ r.success => sessions # SessionIds
        /\ \E n \in SessionIds \cup {0} :
            /\ IF r.success THEN n \in SessionIds \ sessions ELSE n = 0
            /\ sessions' = IF r.success THEN sessions \cup {n} ELSE sessions
            /\ labels' = IF r.success THEN [labels EXCEPT ![n] = dify_labels_create]
                         ELSE labels
            /\ created_by_plugin' = IF r.success THEN created_by_plugin \cup {n}
                                    ELSE created_by_plugin
            /\ trace' = Append(trace, Call("create", n, 0, r, FALSE))
        /\ ret' = create_session_envelope(r)
    /\ pc' = "done"
    /\ client_created' = TRUE
    /\ UNCHANGED <<otherVars, raised, session_handle, session_info, listVars, bridgeVars, outerVars>>

CallListSessions(mode, T) ==
    /\ pc = "idle"
    /\ callerPc = "idle"
    /\ op' = "list_sessions"
    /\ pc' = "page"
    /\ page' = 1
    /\ all_session_ids' = <<>>
    /\ listBackend' = mode
    /\ backendTotal' = T
    /\ UNCHANGED <<sessions, labels, created_by_plugin, api_key, client_created, arg_session, arg_command, raised,
                   session_handle, trace, ret, session_info, lastPage, ret_payload,
                   bridgeVars, outerVars>>

\* one turn of the list_sessions loop: self.client.list(labels, page, limit) and
\* what the loop does with the answer
ListPage ==
    /\ pc = "page"
    /\ page <= MaxPages
    /\ \E r \in ListResponses(listBackend, backendTotal, page, Len(all_session_ids)) :
        LET st == list_step(all_session_ids, page, r)
        IN /\ trace' = Append(trace, [call |-> "list", sid |-> 0, page |-> page,
                                      outcome |-> OutcomeKind(r), live |-> FALSE,
                                      carried |-> Len(r.ids) > 0])
           /\ lastPage' = r
           /\ pc' = st.pc
           /\ all_session_ids' = st.acc
           /\ page' = st.page
           /\ ret' = st.ret
           /\ ret_payload' = st.payload
    /\ client_created' = TRUE
    /\ UNCHANGED <<sessions, labels, created_by_plugin, otherVars, raised, session_handle, session_info,
                   listBackend, backendTotal, bridgeVars, outerVars>>

\* as Return, with the session id of the finished operation kept on the client
Return_keeps_session ==
    /\ pc = "done"
    /\ pc' = "idle"
    /\ op' = "none"
    /\ arg_command' = "str"
    /\ session_handle' = IF session_handle = "session" THEN "session" ELSE "unset"
    /\ trace' = <<>>
    /\ ret' = NoResult
    /\ raised' = FALSE
    /\ all_session_ids' = <<>>
    /\ page' = 0
    /\ listBackend' = "none"
    /\ backendTotal' = 0
    /\ lastPage' = NoPage
    /\ ret_payload' = NoPayload
    /\ session_info' = NoResult
    /\ UNCHANGED <<sessions, labels, created_by_plugin, api_key, client_created, arg_session, bridgeVars, outerVars>>

\* the operation has returned (or raised); the caller goes on
Return ==
    /\ pc = "done"
    /\ pc' = "idle"
    /\ op' = "none"
    /\ arg_session' = 0
    /\ arg_command' = "str"
    /\ session_handle' = "unset"
    /\ trace' = <<>>
    /\ ret' = NoResult
    /\ raised' = FALSE
    /\ all_session_ids' = <<>>
    /\ page' = 0
    /\ listBackend' = "none"
    /\ backendTotal' = 0
    /\ lastPage' = NoPage
    /\ ret_payload' = NoPayload
    /\ session_info' = NoResult
    /\ UNCHANGED <<sessions, labels, created_by_plugin, api_key, client_created, bridgeVars, outerVars>>

\* another actor (another plugin invocation, the console) deletes a session
OtherActorDelete(s) ==
    /\ s \in sessions
    /\ sessions' = sessions \ {s}
    /\ labels' = [labels EXCEPT ![s] = NoLabel]
    /\ created_by_plugin' = created_by_plugin \ {s}
    /\ UNCHANGED <<api_key, client_created, op, pc, arg_session, arg_command, raised,
                   session_handle, trace, ret, session_info, listVars, bridgeVars, outerVars>>

----------------------------------------------------------------------------
(* run_browser_action: the calling thread, the worker thread, the clock *)

\* run_browser_action(endpoint_url, action_func): executor.submit(run_in_new_thread),
\* then future.result(timeout=60)
Invoke ==
    /\ callerPc = "idle"
    /\ pc = "idle"
    /\ workerPc \in {"none", "finished"}
    /\ invocation < MaxInvocations
    /\ invocation' = invocation + 1
    /\ callerPc' = "waiting"
    /\ workerPc' = "start"
    /\ clock' = 0
    /\ future' = "pending"
    /\ automation' = NoAutomation
    /\ stepResult' = NoBrowserResult
    /\ runResult' = NoBrowserResult
    /\ closeResult' = NoBrowserResult
    /\ calls' = NoCalls
    /\ attempted' = NoAttempt
    /\ timedOut' = FALSE
    /\ pendingRet' = NoBrowserResult
    /\ bridgeRet' = NoBrowserResult
    /\ callerInLoop' \in BOOLEAN
    /\ loop' = NoLoop
    /\ ranOn' = NoRuns
    /\ UNCHANGED <<automation_count, usedBy, clientVars, outerVars>>

\* worker: new event loop, _run() builds the automation object and enters action_func,
\* whose automation method finds self.page unset and calls connect()
WorkerStart ==
    /\ workerPc = "start"
    /\ IF PLAYWRIGHT_AVAILABLE
       THEN /\ automation' = NewAutomation(new_automation_id(automation_count))
            /\ automation_count' = automation_count + 1
            /\ usedBy' = [usedBy EXCEPT ![new_automation_id(automation_count)] =
                                            @ \cup {invocation}]
            /\ calls' = [calls EXCEPT !.construct = @ + 1, !.step = @ + 1]
            /\ workerPc' = "connect_playwright"
            /\ ranOn' = [ranOn EXCEPT !.construct = run_where(callerInLoop),
                                      !.step = run_where(callerInLoop)]
            /\ UNCHANGED <<future, stepResult>>
       ELSE /\ future' = "exception"           \* ImportError, before the try of _run
            /\ stepResult' = stepResult
            /\ workerPc' = "finished"
            /\ UNCHANGED <<automation, automation_count, usedBy, calls, ranOn>>
    /\ loop' = [id |-> invocation, state |-> IF PLAYWRIGHT_AVAILABLE THEN "open" ELSE "closed"]
    /\ UNCHANGED <<callerPc, clock, invocation, runResult, closeResult, attempted,
                   timedOut, pendingRet, bridgeRet, callerInLoop, clientVars, outerVars>>

\* connect(): `self.playwright = await async_playwright().start()`
ConnectPlaywright ==
    /\ workerPc = "connect_playwright"
    /\ calls' = [calls EXCEPT !.connect = @ + 1]
    /\ \E o \in {"ok", "raise"} :
        IF o = "ok"
        THEN /\ automation' = [automation EXCEPT !.playwright = TRUE]
             /\ workerPc' = "connect_cdp"
             /\ stepResult' = stepResult
        ELSE /\ automation' = automation
             /\ workerPc' = "close"
             /\ stepResult' = ConnectFailed
    /\ UNCHANGED <<callerPc, clock, future, invocation, automation_count, usedBy,
                   runResult, closeResult, attempted, timedOut, pendingRet, bridgeRet, clientVars, outerVars, threadVars>>

\* connect(): connect_over_cdp, then the context and the page
ConnectCdp ==
    /\ workerPc = "connect_cdp"
    /\ \E o \in {"ok", "raise", "page_raise"} :
        CASE o = "ok" ->
               /\ automation' = [automation EXCEPT !.browser = TRUE, !.page = TRUE]
               /\ workerPc' = "action"
               /\ stepResult' = stepResult
          [] o = "raise" ->
               /\ automation' = automation
               /\ workerPc' = "close"
               /\ stepResult' = ConnectFailed
          [] o = "page_raise" ->
               /\ automation' = [automation EXCEPT !.browser = TRUE]
               /\ workerPc' = "close"
               /\ stepResult' = ConnectFailed
    /\ UNCHANGED <<callerPc, clock, future, invocation, automation_count, usedBy,
                   runResult, closeResult, calls, attempted, timedOut, pendingRet, bridgeRet,
                   clientVars, outerVars, threadVars>>

\* the action of the step: it returns an envelope, raises, or never returns
StepAction ==
    /\ workerPc = "action"
    /\ calls' = [calls EXCEPT !.action = @ + 1]
    /\ \/ \E R \in StepEnvelopes : stepResult' = R /\ workerPc' = "close"
       \/ stepResult' = RaisedResult /\ workerPc' = "close"
       \/ stepResult' = stepResult /\ workerPc' = "hung"
    /\ UNCHANGED <<callerPc, clock, future, invocation, automation_count, automation,
                   usedBy, runResult, closeResult, attempted, timedOut, pendingRet, bridgeRet,
                   clientVars, outerVars, threadVars>>

\* _run's finally: `await automation.close()`; the step's outcome stands unless an
\* exception leaves close()
StepClose ==
    /\ workerPc = "close"
    /\ IF run_closes(stepResult = RaisedResult)
       THEN \E bc \in {"ok", "raise"}, ps \in {"ok", "raise"} :
              LET c == close(automation, bc, ps)
              IN /\ automation' = c.automation
                 /\ closeResult' = c.result
                 /\ attempted' = c.attempted
                 /\ calls' = [calls EXCEPT !.close = @ + 1]
                 /\ ranOn' = [ranOn EXCEPT !.close = run_where(callerInLoop)]
                 /\ usedBy' = [usedBy EXCEPT ![automation.id] = @ \cup {invocation}]
                 /\ runResult' = IF ~c.result.success /\ ~close_swallows
                                 THEN RaisedResult ELSE stepResult
       ELSE /\ runResult' = stepResult
            /\ UNCHANGED <<automation, closeResult, attempted, calls, usedBy, ranOn>>
    /\ workerPc' = "loop_close"
    /\ UNCHANGED <<callerPc, clock, future, invocation, automation_count, stepResult,
                   timedOut, pendingRet, bridgeRet, callerInLoop, loop, clientVars, outerVars>>

\* run_in_new_thread's finally: loop.close(); the Future gets _run's result or exception
WorkerFinish ==
    /\ workerPc = "loop_close"
    /\ future' = IF runResult = RaisedResult THEN "exception" ELSE "result"
    /\ workerPc' = "finished"
    /\ loop' = [loop EXCEPT !.state = "closed"]
    /\ UNCHANGED <<callerPc, clock, invocation, automation_count, automation, usedBy,
                   stepResult, runResult, closeResult, calls, attempted, timedOut, pendingRet,
                   bridgeRet, callerInLoop, ranOn, clientVars, outerVars>>

\* time passes while the caller waits in future.result(timeout=60)
Tick ==
    /\ callerPc = "waiting"
    /\ clock < Ceiling
    /\ clock' = clock + TickSeconds
    /\ UNCHANGED <<callerPc, workerPc, future, invocation, automation_count, automation,
                   usedBy, stepResult, runResult, closeResult, calls, attempted, timedOut,
                   pendingRet, bridgeRet, clientVars, outerVars, threadVars>>

\* future.result returns _run's result, or re-raises its exception into the handler
FutureDone ==
    /\ callerPc = "waiting"
    /\ future # "pending"
    /\ pendingRet' = IF future = "result" THEN runResult ELSE BridgeFailed
    /\ callerPc' = "shutdown"
    /\ UNCHANGED <<workerPc, clock, future, invocation, automation_count, automation,
                   usedBy, stepResult, runResult, closeResult, calls, attempted, timedOut,
                   bridgeRet, clientVars, outerVars, threadVars>>

\* future.result raises TimeoutError: 60 seconds passed and the Future is pending
FutureTimeout ==
    /\ callerPc = "waiting"
    /\ future = "pending"
    /\ clock >= Ceiling
    /\ timedOut' = TRUE
    /\ pendingRet' = BridgeFailed
    /\ callerPc' = "shutdown"
    /\ UNCHANGED <<workerPc, clock, future, invocation, automation_count, automation,
                   usedBy, stepResult, runResult, closeResult, calls, attempted, bridgeRet,
                   clientVars, outerVars, threadVars>>

\* leaving the `with` block: executor.shutdown(wait=True) returns once the worker
\* thread has ended; then the return value, or the handler's envelope, goes out
ExecutorShutdown ==
    /\ callerPc = "shutdown"
    /\ shutdown_waits => workerPc = "finished"
    /\ bridgeRet' = pendingRet
    /\ callerPc' = "returned"
    /\ UNCHANGED <<workerPc, clock, future, invocation, automation_count, automation,
                   usedBy, stepResult, runResult, closeResult, calls, attempted, timedOut,
                   pendingRet, clientVars, outerVars, threadVars>>

\* the caller has its envelope and goes on
BridgeReturn ==
    /\ callerPc = "returned"
    /\ callerPc' = "idle"
    /\ workerPc' = "none"
    /\ clock' = 0
    /\ future' = "pending"
    /\ automation' = NoAutomation
    /\ stepResult' = NoBrowserResult
    /\ runResult' = NoBrowserResult
    /\ closeResult' = NoBrowserResult
    /\ calls' = NoCalls
    /\ attempted' = NoAttempt
    /\ timedOut' = FALSE
    /\ pendingRet' = NoBrowserResult
    /\ bridgeRet' = NoBrowserResult
    /\ callerInLoop' = FALSE
    /\ loop' = NoLoop
    /\ ranOn' = NoRuns
    /\ UNCHANGED <<invocation, automation_count, usedBy, clientVars, outerVars>>

----------------------------------------------------------------------------
(* The validators, each called once on the argument drawn at the start *)

ApplyValidator ==
    /\ vfun # "none"
    /\ ~vout.returned
    /\ vout' = Returned(apply_validator(vfun, vin))
    /\ UNCHANGED <<vfun, vin, clientVars, bridgeVars, providerVars, toolVars, analyzeVars>>

----------------------------------------------------------------------------
(* _validate_credentials *)

\* the checks on the key, up to the construction of the client
CheckKey ==
    /\ providerPc = "idle"
    /\ verdict = "none"
    /\ LET b == before_probe(credentials)
       IN IF b = "probe"
          THEN providerPc' = "probe" /\ verdict' = verdict
          ELSE providerPc' = "done" /\ verdict' = b
    /\ UNCHANGED <<credentials, probes, test_result, clientVars, bridgeVars, validatorVars,
                   toolVars, analyzeVars>>

\* test_result = client.list_sessions(), and what follows from it
Probe ==
    /\ providerPc = "probe"
    /\ \E r \in ProbeResults :
        /\ test_result' = r
        /\ verdict' = after_probe(r)
    /\ probes' = probes + 1
    /\ providerPc' = "done"
    /\ UNCHANGED <<credentials, clientVars, bridgeVars, validatorVars, toolVars, analyzeVars>>

----------------------------------------------------------------------------
(* Tool._invoke of the adapters *)

\* the host calls _invoke(tool_parameters)
ToolInvoke(t, p) ==
    /\ toolPc = "idle"
    /\ tool' = t
    /\ tool_parameters' = p
    /\ toolPc' = "validate"
    /\ UNCHANGED <<messages, client_built, remote_calls, result, sent_command, clientVars,
                   bridgeVars, validatorVars, providerVars, analyzeVars>>

\* the parameter validation: on the first failing check the error texts and return
ToolValidate ==
    /\ toolPc = "validate"
    /\ LET errors == validation_messages(tool, tool_parameters)
       IN /\ messages' = errors
          /\ toolPc' = IF errors # <<>> THEN "done" ELSE "client"
    /\ UNCHANGED <<tool, tool_parameters, client_built, remote_calls, result, sent_command,
                   clientVars, bridgeVars, validatorVars, providerVars, analyzeVars>>

\* client = get_agentbay_client(self.runtime.credentials), then the announcement
ToolGetClient ==
    /\ toolPc = "client"
    /\ client_built' = TRUE
    /\ messages' = messages \o announcement(tool, tool_parameters)
    /\ toolPc' = "execute"
    /\ UNCHANGED <<tool, tool_parameters, remote_calls, result, sent_command, clientVars,
                   bridgeVars, validatorVars, providerVars, analyzeVars>>

\* the operation of the client (for the browser tool, browser_initialize and the step)
ToolExecute ==
    /\ toolPc = "execute"
    /\ \E r \in ToolResults(tool, tool_parameters) : result' = r
    /\ remote_calls' = remote_calls + client_operations(tool, tool_parameters)
    /\ sent_command' = IF tool = "command_execute" THEN combine(tool_parameters) ELSE <<>>
    /\ toolPc' = "respond"
    /\ UNCHANGED <<tool, tool_parameters, messages, client_built, clientVars, bridgeVars,
                   validatorVars, providerVars, analyzeVars>>

\* the messages that report the result
ToolRespond ==
    /\ toolPc = "respond"
    /\ messages' = messages \o response(tool, tool_parameters, result)
    /\ toolPc' = "done"
    /\ UNCHANGED <<tool, tool_parameters, client_built, remote_calls, result, sent_command,
                   clientVars, bridgeVars, validatorVars, providerVars, analyzeVars>>

\* the generator is exhausted
ToolReturn ==
    /\ toolPc = "done"
    /\ tool' = "none"
    /\ tool_parameters' = NoParameters
    /\ toolPc' = "idle"
    /\ messages' = <<>>
    /\ client_built' = FALSE
    /\ remote_calls' = 0
    /\ result' = NoToolResult
    /\ sent_command' = <<>>
    /\ UNCHANGED <<clientVars, bridgeVars, validatorVars, providerVars, analyzeVars>>

----------------------------------------------------------------------------
(* AgentBayBrowserAutomation.analyze_page_elements *)

AnalyzePageElements ==
    /\ ~elements_result.returned
    /\ \E outcome \in {"ok", "connect failed", "page raised"} :
         elements_result' = analyze_page_elements(dom, outcome)
    /\ UNCHANGED <<dom, clientVars, bridgeVars, validatorVars, providerVars, toolVars>>

----------------------------------------------------------------------------
(* Specifications *)

ClientNext ==
    \/ \E o \in ClientOps, s \in SessionIds, c \in {"str", "none"} : CallSessionOp(o, s, c)
    \/ GetSessionInfo
    \/ HandleLookup
    \/ Act
    \/ DeleteWithoutHandle
    \/ GetEndpointUrl
    \/ CallCreateSession
    \/ CreateSession
    \/ \E T \in 0..MaxTotal : CallListSessions("paged", T)
    \/ CallListSessions("adversarial", 0)
    \/ CallListSessions("directory", 0)
    \/ CallListSessions("endless", 0)
    \/ ListPage
    \/ Return
    \/ \E s \in SessionIds : OtherActorDelete(s)

BridgeNext ==
    \/ Invoke
    \/ WorkerStart
    \/ ConnectPlaywright
    \/ ConnectCdp
    \/ StepAction
    \/ StepClose
    \/ WorkerFinish
    \/ Tick
    \/ FutureDone
    \/ FutureTimeout
    \/ ExecutorShutdown
    \/ BridgeReturn

Next == ClientNext \/ BridgeNext

\* the client and the other actor
Spec == Init /\ [][ClientNext]_vars

\* run_browser_action alone
BridgeInit == Init /\ sessions = {}

BridgeSpec == BridgeInit /\ [][BridgeNext]_vars

\* one caller thread that calls the client and the bridge in turn
\* an account on which every session was created by this plugin
PluginInit == Init /\ created_by_plugin = sessions

PluginSpec == PluginInit /\ [][Next]_vars

\* the validators alone, over the arguments of SessionIdInputs and TimeoutInputs
ValidatorInit ==
    /\ ProgramInit
    /\ sessions = {}
    /\ vfun \in {"validate_session_id", "validate_timeout", "validate_command",
                "sanitize_content"}
    /\ vin \in ValidatorInputs(vfun)
    /\ vout = NotReturned
    /\ NoProviderCall
    /\ NoToolCall
    /\ NoAnalysis

ValidatorNext == ApplyValidator

ValidatorSpec == ValidatorInit /\ [][ValidatorNext]_vars

\* credential validation alone, over the keys of KeyInputs
ProviderInit ==
    /\ ProgramInit
    /\ sessions = {}
    /\ NoValidatorCall
    /\ credentials \in KeyInputs
    /\ providerPc = "idle"
    /\ probes = 0
    /\ test_result = NoProbe
    /\ verdict = "none"
    /\ NoToolCall
    /\ NoAnalysis

ProviderNext == CheckKey \/ Probe

ProviderSpec == ProviderInit /\ [][ProviderNext]_vars

\* the client alone on the backend: no other actor deletes sessions
LifecycleNext ==
    \/ \E o \in ClientOps, s \in SessionIds, c \in {"str", "none"} : CallSessionOp(o, s, c)
    \/ GetSessionInfo
    \/ HandleLookup
    \/ Act
    \/ DeleteWithoutHandle
    \/ GetEndpointUrl
    \/ CallCreateSession
    \/ CreateSession
    \/ Return

LifecycleSpec == Init /\ [][LifecycleNext]_vars

\* the tool adapters alone, one invocation after another
ToolInit == Init /\ sessions = {}

ToolNext ==
    \/ \E t \in Tools : \E p \in ToolInputs(t) : ToolInvoke(t, p)
    \/ ToolValidate
    \/ ToolGetClient
    \/ ToolExecute
    \/ ToolRespond
    \/ ToolReturn

ToolSpec == ToolInit /\ [][ToolNext]_vars

\* analyze_page_elements alone, on every page of the model
AnalyzeInit ==
    /\ ProgramInit
    /\ sessions = {}
    /\ NoValidatorCall
    /\ NoProviderCall
    /\ NoToolCall
    /\ dom \in Pages
    /\ elements_result = NotAnalyzed

AnalyzeNext == AnalyzePageElements

AnalyzeSpec == AnalyzeInit /\ [][AnalyzeNext]_vars

----------------------------------------------------------------------------
(* Claims about the client *)

IsEnvelope(e) == e # NoResult /\ e.data # "unset" /\ e.error # "unset"

WellFormed(e) ==
    /\ IsEnvelope(e)
    /\ e.success => e.error = Null
    /\ ~e.success => e.data = Null

\* C1: every public operation of the client, for any arguments and any backend
\* behaviour, ends by returning one SimpleResult; no exception leaves it.
C1_NoExceptionEscapes ==
    pc = "done" => ~raised /\ IsEnvelope(ret)

\* C2: every SimpleResult a client operation returns has error null when success is
\* true and data null when success is false, also when the failed remote result
\* carried a payload.
C2_EnvelopeInvariant ==
    (pc = "done" /\ ~raised) =>
        /\ IsEnvelope(ret)
        /\ ret.success => ret.error = Null
        /\ ~ret.success => ret.data = Null

\* a session-scoped operation has returned after a failed remote action whose result
\* still carried a payload
C2_Witness ==
    /\ pc = "done"
    /\ op = "read_file"
    /\ Len(trace) = 3
    /\ trace[3].call = "read_file" /\ trace[3].outcome = "fail" /\ trace[3].carried
    /\ ~ret.success /\ ret.data = Null

\* C3: in a session-scoped operation the existence lookup comes first; when it does not
\* succeed the operation returns that failed envelope, and neither the handle lookup
\* nor the remote action is ever called.
C3_CheckBeforeAct ==
    op \in SessionOps =>
        /\ \A i \in 1..Len(trace) :
              (trace[i].call = "get_session") <=> (i = 1)
        /\ Len(trace) > 1 => session_info.success
        /\ (IsEnvelope(session_info) /\ ~session_info.success) =>
              /\ pc = "done"
              /\ ret = session_info
              /\ Len(trace) = 1

\* delete_session has returned the failed envelope of its lookup: the backend answered
\* success without data
C3_Witness ==
    /\ op = "delete_session"
    /\ pc = "done"
    /\ Len(trace) = 1
    /\ trace[1].outcome = "ok"
    /\ ~session_info.success
    /\ ret = session_info

\* the number of page requests for T sessions in pages of `limit`
ExpectedRequests(T) == IF T = 0 THEN 1 ELSE (T + limit - 1) \div limit

\* C7: against a backend that reports a fixed total T and serves the ids in consecutive
\* pages of up to 100, list_sessions asks for pages 1, 2, 3, ... in order, ceil(T/100)
\* of them (one when T = 0), and returns success with count T and the sessions in page
\* order.
C7_PagedListing ==
    (op = "list_sessions" /\ listBackend = "paged") =>
        /\ \A i \in 1..Len(trace) : trace[i].call = "list" /\ trace[i].page = i
        /\ Len(trace) <= ExpectedRequests(backendTotal)
        /\ pc = "page" => page = Len(trace) + 1 /\ page <= ExpectedRequests(backendTotal)
        /\ pc = "done" =>
              /\ Len(trace) = ExpectedRequests(backendTotal)
              /\ ret = SimpleResult(TRUE, DataOf("list_sessions"), Null)
              /\ ret_payload.count = backendTotal
              /\ ret_payload.sessions =
                    [i \in 1..backendTotal |-> [session_id |-> i, status |-> "active"]]

\* total 250 in pages of 100, 100, 50: three requests, count 250
C7_Witness ==
    /\ op = "list_sessions" /\ listBackend = "paged" /\ backendTotal = 250
    /\ pc = "done"
    /\ Len(trace) = 3
    /\ ret.success /\ ret_payload.count = 250

\* the loop's stop condition, read off the response r and the ids held after it
StopCondition(accLen, r) ==
    \/ accLen >= (IF r.hasTotal THEN r.total ELSE Len(r.ids))
    \/ r.idsNone
    \/ Len(r.ids) = 0

\* C8: after a successful page request the loop stops exactly when the ids accumulated
\* reach the total reported with that page or the page carries no ids, and otherwise
\* asks for the next page number; once stopped, no further page request is issued.
C8_LoopStops ==
    /\ [][(pc = "page" /\ Len(trace') = Len(trace) + 1
             /\ lastPage'.kind = "result" /\ lastPage'.success) =>
          IF StopCondition(Len(all_session_ids'), lastPage')
          THEN pc' = "done"
          ELSE pc' = "page" /\ page' = page + 1]_vars
    /\ [][(op = "list_sessions" /\ pc = "done") => Len(trace') <= Len(trace)]_vars

\* the second page came back empty while the total was not reached: the loop stopped
C8_Witness ==
    /\ op = "list_sessions" /\ listBackend = "adversarial"
    /\ pc = "done"
    /\ Len(trace) = 2
    /\ Len(lastPage.ids) = 0 /\ lastPage.hasTotal
    /\ lastPage.total > Len(all_session_ids)
    /\ ret.success

\* the lookup found the session, another actor deleted it, and the remote action was
\* issued for the session that no longer existed
RaceHappened ==
    /\ op \in SessionOps
    /\ Len(trace) >= 2
    /\ trace[1].call = "get_session" /\ trace[1].live /\ session_info.success
    /\ \E i \in 2..Len(trace) : trace[i].call = op /\ ~trace[i].live

\* C9: check-then-act is not atomic: a run exists in which the existence check
\* succeeds, another actor deletes the session and the remote action is still issued
\* for it; the operation then still returns a well-formed envelope.
C9_RaceEnvelopeWellFormed ==
    (pc = "done" /\ RaceHappened) => ~raised /\ WellFormed(ret)

C9_Witness ==
    /\ pc = "done"
    /\ op = "execute_command"
    /\ RaceHappened
    /\ arg_session \notin sessions

\* the SDK calls of the trace that go to the backend
IsRemote(t) == t.call # "delete_none"

ClientNoRetry ==
    /\ \A i, j \in 1..Len(trace) :
          i < j => ~(trace[i].call = trace[j].call /\ trace[i].page = trace[j].page)
    /\ \A i \in 1..Len(trace) :
          (IsRemote(trace[i]) /\ trace[i].outcome \in {"fail", "raise"}) =>
              /\ \A j \in (i + 1)..Len(trace) : ~IsRemote(trace[j])
              /\ \/ pc = "done" /\ ~raised /\ IsEnvelope(ret) /\ ~ret.success
                 \/ pc = "act" /\ op = "delete_session" /\ session_handle = "null"

BridgeNoRetry ==
    /\ calls.step <= 1 /\ calls.connect <= 1 /\ calls.action <= 1
    /\ stepResult = ConnectFailed => calls.action = 0
    /\ (callerPc = "returned" /\ stepResult \in {ConnectFailed, RaisedResult}) =>
          ~bridgeRet.success

\* C10: nothing is retried. Within one call each remote step (existence lookup, handle
\* lookup, the action, each numbered list page, the browser connect) is issued at most
\* once, and the first failed result or exception ends the call with a failed envelope.
C10_NoRetries == ClientNoRetry /\ BridgeNoRetry

\* list_sessions got its first page, the second page request failed, the call ended
C10_Witness ==
    /\ op = "list_sessions"
    /\ pc = "done"
    /\ Len(trace) = 2
    /\ trace[1].outcome = "ok" /\ trace[2].outcome = "fail"
    /\ ~ret.success

----------------------------------------------------------------------------
(* Claims about the bridge *)

\* what the calling thread can do next inside run_browser_action
CallerStep == Tick \/ FutureTimeout \/ FutureDone \/ ExecutorShutdown

\* C4: when the step function never returns, the caller gets a failed envelope once the
\* 60 seconds are over: it is never left without a step to take while the worker hangs.
C4_TimeoutReturnsControl ==
    (workerPc = "hung" /\ callerPc # "idle") =>
        \/ callerPc = "returned" /\ bridgeRet = BridgeFailed
        \/ ENABLED CallerStep

TeardownFailedAfter ==
    /\ callerPc = "returned"
    /\ stepResult \in StepEnvelopes
    /\ calls.close = 1
    /\ ~closeResult.success

\* C6 as stated: when the step returned R and teardown then failed,
\* run_browser_action returns R.
C6_TeardownNeverAltersResult ==
    TeardownFailedAfter => bridgeRet = stepResult

\* C6, amended: when the step returned R, teardown then failed, and the worker ended
\* before the 60 seconds were over, run_browser_action returns R.
C6_TeardownFailureSwallowed ==
    (TeardownFailedAfter /\ ~timedOut) => bridgeRet = stepResult

C6_Witness ==
    /\ TeardownFailedAfter
    /\ ~timedOut
    /\ stepResult.success
    /\ bridgeRet = stepResult


----------------------------------------------------------------------------
(* C11: the client holds no session state.  Across any sequence of          *)
(* operations api_key never changes; of the client's fields only the lazily *)
(* created SDK handle (_client) changes, once, from unset to set; and when  *)
(* an operation has returned nothing of it is left: no session id, no       *)
(* session handle, no result, no listing, so the next operation starts from *)
(* the same client whatever was done before on another session id.          *)

NothingRetained ==
    /\ op = "none"
    /\ arg_session = 0
    /\ session_handle = "unset"
    /\ session_info = NoResult
    /\ trace = <<>>
    /\ ret = NoResult
    /\ all_session_ids = <<>>
    /\ ret_payload = NoPayload
    /\ lastPage = NoPage

C11_ClientHoldsNoSessionState ==
    /\ [][api_key' = api_key /\ (client_created => client_created')]_vars
    /\ [](pc = "idle" => NothingRetained)

\* an operation on session 1 starts on a client that has already served an earlier
\* operation (its SDK handle exists) while session 2 is there to have been its target
C11_Witness ==
    /\ pc = "check"
    /\ client_created
    /\ arg_session = 1
    /\ 2 \in sessions
    /\ api_key = "key"


----------------------------------------------------------------------------
(* C12: every Bridge step runs on a dedicated worker thread with an event   *)
(* loop created for that invocation and closed when the worker ends; the    *)
(* construction, the step and the teardown never run on the caller's thread *)
(* or on a loop the caller is running, whether or not the caller is inside  *)
(* a running event loop.                                                    *)

WorkerRunning ==
    workerPc \in {"connect_playwright", "connect_cdp", "action", "close", "loop_close", "hung"}

C12_DedicatedWorkerAndLoop ==
    /\ \A k \in DOMAIN ranOn :
          ranOn[k] # Nowhere => ranOn[k].thread = "worker" /\ ranOn[k].loop = "new"
    /\ WorkerRunning => loop = [id |-> invocation, state |-> "open"]
    /\ workerPc = "finished" => loop = [id |-> invocation, state |-> "closed"]
    /\ callerPc = "idle" => loop = NoLoop

\* a caller that is not inside a running loop has had its step and teardown run, and
\* the worker has ended
C12_Witness ==
    /\ ~callerInLoop
    /\ ranOn.step # Nowhere
    /\ ranOn.close # Nowhere
    /\ calls.action = 1
    /\ workerPc = "finished"
    /\ loop.state = "closed"


----------------------------------------------------------------------------
(* C19: validate_session_id returns false for every session id of length    *)
(* <= 5, for every id with a character outside [A-Za-z0-9_-] (non-ASCII     *)
(* letters and digits included) and for empty or non-string input, and true *)
(* for "abc12345".                                                          *)

InIdPattern(c) == c \in AsciiAlnum \cup {"-", "_"}

C19_SessionIdShape ==
    (vfun = "validate_session_id" /\ vout.returned) =>
        /\ (\/ vin.type # "str"
            \/ Len(vin.chars) <= 5
            \/ \E i \in 1..Len(vin.chars) : ~InIdPattern(vin.chars[i])) => ~vout.value
        /\ vin = PyStr(<<"a", "b", "c", "1", "2", "3", "4", "5">>) => vout.value

----------------------------------------------------------------------------
(* C20: validate_timeout returns true exactly for the numbers in the closed *)
(* interval [1000, 300000], and false for everything else: 999, 300001,     *)
(* values that are not numbers.                                             *)

IsNumberInRange(v) ==
    /\ v.type \in {"int", "float"}
    /\ 10 * MinTimeoutMs <= v.tenths
    /\ v.tenths <= 10 * MaxTimeoutMs

C20_TimeoutRange ==
    (vfun = "validate_timeout" /\ vout.returned) =>
        /\ vout.value <=> IsNumberInRange(vin)
        /\ vin \in {PyInt(MinTimeoutMs - 1), PyInt(MaxTimeoutMs + 1)} => ~vout.value

\* the upper end of the range has been accepted
C20_Witness ==
    /\ vfun = "validate_timeout"
    /\ vin = PyInt(MaxTimeoutMs)
    /\ vout = Returned(TRUE)


----------------------------------------------------------------------------
(* C15: credential validation rejects whenever the API key is missing,      *)
(* empty, or shorter than 10 characters once leading and trailing           *)
(* whitespace is taken off, and then issues no probe: list_sessions is      *)
(* never called.                                                            *)

\* the length of cs between its first and its last character that is not a blank
TrimmedLen(cs) ==
    LET solid == {i \in 1..Len(cs) : cs[i] # " "}
    IN IF solid = {} THEN 0
       ELSE (CHOOSE i \in solid : \A j \in solid : j <= i)
            - (CHOOSE i \in solid : \A j \in solid : i <= j) + 1

KeyTooShort(k) ==
    k.type = "none" \/ (k.type = "str" /\ TrimmedLen(k.chars) < MinKeyLen)

Rejected == verdict \notin {"none", "accepted"}

C15_ShortKeyRejectedWithoutProbe ==
    KeyTooShort(credentials) =>
        /\ probes = 0
        /\ providerPc = "done" => Rejected

\* an 11-character key of 9 characters between blanks has been rejected
C15_Witness ==
    /\ credentials.type = "str"
    /\ Len(credentials.chars) = MinKeyLen + 1
    /\ TrimmedLen(credentials.chars) = MinKeyLen - 1
    /\ providerPc = "done"
    /\ Rejected
    /\ probes = 0

----------------------------------------------------------------------------
(* C16: for a key that passes the length check, credential validation runs  *)
(* exactly one list_sessions probe, and every failure of the probe is a     *)
(* rejection: a message with auth/unauthorized/forbidden gives a credential *)
(* error, one with network/connection a connectivity error, any other a     *)
(* generic error; validation succeeds only when the probe succeeds.         *)

ExpectedVerdict(r) ==
    IF r.success THEN "accepted"
    ELSE IF r.error \cap {"auth", "unauthorized", "forbidden"} # {} THEN "credential error"
    ELSE IF r.error \cap {"network", "connection"} # {} THEN "connectivity error"
    ELSE "generic error"

C16_ProbeFailureRejected ==
    (providerPc = "done" /\ ~KeyTooShort(credentials) /\ credentials.type = "str") =>
        /\ probes = 1
        /\ verdict = ExpectedVerdict(test_result)
        /\ verdict = "accepted" => test_result.success


----------------------------------------------------------------------------
(* C17: browser_initialize returns a successful envelope only when the      *)
(* backend yielded a usable (non-empty) control endpoint URL; when the      *)
(* initialization reports failure, or the endpoint URL retrieved is missing *)
(* or empty, it returns a failed envelope.                                  *)

EndpointCall == trace[Len(trace)]

C17_UsableEndpoint ==
    (op = "browser_initialize" /\ pc = "done" /\ ~raised) =>
        /\ ret.success => ret.data = "endpoint"
        /\ (Len(trace) > 0 /\ EndpointCall.call = "browser_initialize"
              /\ EndpointCall.outcome = "fail") => ~ret.success
        /\ (Len(trace) > 0 /\ EndpointCall.call = "get_endpoint_url"
              /\ ~EndpointCall.carried) => ~ret.success


----------------------------------------------------------------------------
(* C18: the ownership label create_session attaches is the same fixed       *)
(* key-value pair list_sessions filters by; so, after any sequence of       *)
(* operations, every session create_session created that has not been      *)
(* deleted is in the result of a successful list_sessions, and no session   *)
(* created without that label is.                                           *)

Listed(payload) == {payload.sessions[i].session_id : i \in 1..Len(payload.sessions)}

C18_OwnLabelScopesListing ==
    /\ [](dify_labels_create = dify_labels_list)
    /\ [][(pc = "page" /\ pc' = "done" /\ listBackend = "directory" /\ ret'.success) =>
            \A s \in sessions :
                /\ s \in created_by_plugin => s \in Listed(ret_payload')
                /\ labels[s] # dify_labels_create => s \notin Listed(ret_payload')]_vars

\* two sessions exist, one created by create_session and one carrying another label, and
\* a listing has succeeded with one entry
C18_Witness ==
    /\ op = "list_sessions"
    /\ pc = "done"
    /\ listBackend = "directory"
    /\ ret.success
    /\ ret_payload.count = 1
    /\ created_by_plugin # {}
    /\ \E s \in sessions : labels[s] = ForeignLabel
    /\ Listed(ret_payload) = created_by_plugin


----------------------------------------------------------------------------
(* C13: for a successful screenshot action of the browser tool the JSON     *)
(* message never holds the raw image bytes (no screenshot_data key) and     *)
(* does hold the byte length (size) and the format; the bytes go out only   *)
(* in a separate blob message, which comes before the JSON message.         *)

ScreenshotDone ==
    /\ tool = "browser_automation"
    /\ tool_parameters.action = "screenshot"
    /\ toolPc = "done"
    /\ result.reached
    /\ result.success

Positions(type) == {i \in 1..Len(messages) : messages[i].type = type}

C13_ScreenshotBytesOnlyInBlob ==
    ScreenshotDone =>
        /\ Cardinality(Positions("json")) = 1
        /\ \A j \in Positions("json") :
             /\ "screenshot_data" \notin messages[j].keys
             /\ {"size", "format"} \subseteq messages[j].keys
             /\ \A b \in Positions("blob") : b < j
        /\ \A i \in 1..Len(messages) : messages[i].bytes > 0 => messages[i].type = "blob"
        /\ result.data.bytes > 0 =>
             \E b \in Positions("blob") : messages[b].bytes = result.data.bytes

\* a screenshot of MaxShotBytes bytes has been reported
C13_Witness ==
    /\ ScreenshotDone
    /\ result.data.bytes = MaxShotBytes
    /\ Positions("blob") # {}

----------------------------------------------------------------------------
(* C14: in every tool adapter a validation error (missing or badly shaped   *)
(* session id, missing or unsafe command, out-of-range timeout, disallowed  *)
(* image id, unsupported action or language, missing required operation     *)
(* parameter) ends the invocation with an error text message before the     *)
(* client is constructed, so that no remote call is issued.                 *)

TakesSessionId(t) == t \notin {"session_create", "session_list"}

BadSessionId(v) ==
    \/ v.type # "str"
    \/ Len(v.chars) <= 5
    \/ \E i \in 1..Len(v.chars) : ~InIdPattern(v.chars[i])

\* the parameters an action cannot do without
MissingRequired(t, p) ==
    CASE t = "code_execute" -> p.code = ""
      [] t = "file_operations" -> p.action \in {"read", "write"} /\ p.file_path = ""
      [] t = "browser_automation" ->
           \/ p.action = "navigate" /\ p.url = ""
           \/ p.action \in {"click", "type", "wait_element"} /\ p.selector = ""
           \/ p.action = "type" /\ p.text = ""
      [] t = "computer_operations" ->
           \/ p.action \in {"click_mouse", "move_mouse", "scroll", "drag_mouse"} /\ ~p.coords
           \/ p.action = "input_text" /\ p.text = ""
           \/ p.action = "press_keys" /\ p.keys = ""
      [] t = "mobile_operations" ->
           \/ p.action \in {"tap", "swipe"} /\ ~p.coords
           \/ p.action = "input_text" /\ p.text = ""
           \/ p.action = "send_key" /\ p.key = ""
      [] OTHER -> FALSE

HasValidationError(t, p) ==
    \/ TakesSessionId(t) /\ BadSessionId(p.session_id)
    \/ t = "command_execute" /\ (~validate_command(PyStr(p.command)) \/ ~IsNumberInRange(p.timeout_ms))
    \/ t = "session_create" /\ p.image_id \notin ALLOWED_IMAGE_IDS
    \/ SUPPORTED_ACTIONS(t) # {"none"} /\ p.action \notin SUPPORTED_ACTIONS(t)
    \/ t = "code_execute" /\ p.language \notin SUPPORTED_LANGUAGES
    \/ MissingRequired(t, p)

EndedAtValidation ==
    /\ ~client_built
    /\ remote_calls = 0
    /\ Len(messages) >= 1
    /\ \A i \in 1..Len(messages) : messages[i] = Text("error")

C14_ValidationBeforeClient ==
    (toolPc = "done" /\ HasValidationError(tool, tool_parameters)) => EndedAtValidation


----------------------------------------------------------------------------
(* C21: validate_command returns false for every command that contains      *)
(* `rm -rf /` anywhere, in any letter casing and with any amount of         *)
(* whitespace between its three tokens, and for empty or non-string input;  *)
(* a non-empty string that matches none of the deny-list patterns returns   *)
(* true.                                                                    *)

Whitespace == {" ", "\t", "\n"}

\* cs[i..j-1] is the word w, in some casing
WordAt(cs, i, w) ==
    /\ i + Len(w) - 1 <= Len(cs)
    /\ \A k \in 1..Len(w) : lower(cs[i + k - 1]) = w[k]

\* cs[i..j-1] is whitespace, one character at least
GapAt(cs, i, j) == i < j /\ j <= Len(cs) + 1 /\ \A k \in i..(j - 1) : cs[k] \in Whitespace

ContainsRmRfRoot(cs) ==
    \E i, j, k \in 1..(Len(cs) + 1) :
        /\ WordAt(cs, i, <<"r", "m">>)
        /\ GapAt(cs, i + 2, j)
        /\ WordAt(cs, j, <<"-", "r", "f">>)
        /\ GapAt(cs, j + 3, k)
        /\ WordAt(cs, k, <<"/">>)

CommandChecked == vfun = "validate_command" /\ vout.returned

C21_DenyRmRfRoot ==
    CommandChecked =>
        /\ (vin.type = "str" /\ ContainsRmRfRoot(vin.chars)) => vout.value = FALSE
        /\ (vin.type # "str" \/ vin.chars = <<>>) => vout.value = FALSE
        /\ (vin.type = "str" /\ vin.chars # <<>> /\ ~dangerous(vin.chars)) => vout.value = TRUE

\* `rm -rf /` in capitals and with MaxSpaces whitespace characters in a gap was refused
C21_Witness ==
    /\ CommandChecked
    /\ vin.type = "str"
    /\ ContainsRmRfRoot(vin.chars)
    /\ \E i \in 1..Len(vin.chars) : vin.chars[i] \in DOMAIN capitals
    /\ \E i \in 1..Len(vin.chars) : GapAt(vin.chars, i, i + MaxSpaces) /\ vin.chars[i] = "\t"
    /\ vout.value = FALSE


----------------------------------------------------------------------------
(* C22: sanitize_content removes every `<script ... </script>` span          *)
(* (case-insensitive, shortest match, spanning newlines) and then every     *)
(* occurrence of `javascript:` (case-insensitive), keeps the remaining text *)
(* in its original order, and returns the empty string for non-string       *)
(* input; "<script>alert(1)</script>hello" yields "hello" and               *)
(* "javascript:doEvil()" yields "doEvil()".                                 *)

OpenTag == <<"<", "s", "c", "r", "i", "p", "t">>
CloseTag == <<"<", "/", "s", "c", "r", "i", "p", "t", ">">>
Scheme == <<"j", "a", "v", "a", "s", "c", "r", "i", "p", "t", ":">>

\* the positions from `from` on at which the word w stands in cs
Occurrences(cs, w, from) == {i \in from..Len(cs) : WordAt(cs, i, w)}

Earliest(S) == CHOOSE i \in S : \A j \in S : i <= j

\* cs from position i on
From(cs, i) == SubSeq(cs, i, Len(cs))

\* cs without its script spans: a span runs from the first opening tag to the first
\* closing tag behind it, whatever lies between
RECURSIVE WithoutSpans(_)
WithoutSpans(cs) ==
    LET opens == Occurrences(cs, OpenTag, 1)
    IN IF opens = {} THEN cs
       ELSE LET o == Earliest(opens)
                closes == Occurrences(cs, CloseTag, o + Len(OpenTag))
            IN IF closes = {} THEN cs
               ELSE SubSeq(cs, 1, o - 1)
                        \o WithoutSpans(From(cs, Earliest(closes) + Len(CloseTag)))

\* cs without the occurrences of the scheme, taken from the left
RECURSIVE WithoutScheme(_)
WithoutScheme(cs) ==
    LET at == Occurrences(cs, Scheme, 1)
    IN IF at = {} THEN cs
       ELSE SubSeq(cs, 1, Earliest(at) - 1)
                \o WithoutScheme(From(cs, Earliest(at) + Len(Scheme)))

\* a is what is left of b after characters were taken out
RECURSIVE Remains(_, _)
Remains(a, b) ==
    IF a = <<>> THEN TRUE
    ELSE IF b = <<>> THEN FALSE
    ELSE IF Head(a) = Head(b) THEN Remains(Tail(a), Tail(b))
    ELSE Remains(a, Tail(b))

AlertHello ==
    <<"<", "s", "c", "r", "i", "p", "t", ">", "a", "l", "e", "r", "t", "(", "1", ")",
      "<", "/", "s", "c", "r", "i", "p", "t", ">", "h", "e", "l", "l", "o">>

DoEvil ==
    <<"j", "a", "v", "a", "s", "c", "r", "i", "p", "t", ":", "d", "o", "E", "v", "i", "l", "(", ")">>

ContentSanitized == vfun = "sanitize_content" /\ vout.returned

C22_SanitizeContent ==
    ContentSanitized =>
        /\ vin.type # "str" => vout.value = <<>>
        /\ vin.type = "str" =>
             /\ vout.value = WithoutScheme(WithoutSpans(vin.chars))
             /\ Remains(vout.value, vin.chars)
        /\ vin = PyStr(AlertHello) => vout.value = <<"h", "e", "l", "l", "o">>
        /\ vin = PyStr(DoEvil) => vout.value = <<"d", "o", "E", "v", "i", "l", "(", ")">>

\* a content with a span across a newline and text behind it was sanitized
C22_Witness ==
    /\ ContentSanitized
    /\ vin.type = "str"
    /\ \E o \in Occurrences(vin.chars, OpenTag, 1) :
         \E n \in o..Len(vin.chars) :
             /\ vin.chars[n] = "\n"
             /\ Occurrences(vin.chars, CloseTag, n) # {}
    /\ vout.value = <<"x">>


----------------------------------------------------------------------------
(* C23: for every element reported by analyze_page_elements,                *)
(* possible_selectors is non-empty and ordered id selector first (present   *)
(* iff the element has an id), then name selector (iff it has a name), then *)
(* class selector (iff it has a class), then the nth-child fallback, always *)
(* present and always last; total_elements is the sum of the lengths of the *)
(* per-tag lists, counting only elements whose analysis did not fail.       *)

Rank(kind) == CASE kind = "id" -> 1 [] kind = "name" -> 2 [] kind = "class" -> 3 [] OTHER -> 4

Kinds(sel) == {sel[i].kind : i \in 1..Len(sel)}

HasAttribute(x) == x \notin {"none", ""}

Analyzed == elements_result.returned /\ elements_result.success

\* the number of elements of the page whose analysis does not fail
RECURSIVE Sound(_)
Sound(tags) ==
    IF tags = <<>> THEN 0
    ELSE Cardinality({i \in 1..Len(dom[Head(tags)]) : ~dom[Head(tags)][i].raises})
         + Sound(Tail(tags))

C23_SelectorsRanked ==
    Analyzed =>
        /\ \A t \in DOMAIN elements_result.elements :
             \A n \in 1..Len(elements_result.elements[t]) :
                 LET info == elements_result.elements[t][n]
                     sel == info.possible_selectors
                     e == dom[t][info.index + 1]
                 IN /\ Len(sel) >= 1
                    /\ \A i, j \in 1..Len(sel) : i < j => Rank(sel[i].kind) < Rank(sel[j].kind)
                    /\ "id" \in Kinds(sel) <=> HasAttribute(e.id)
                    /\ "name" \in Kinds(sel) <=> HasAttribute(e.name)
                    /\ "class" \in Kinds(sel) <=> HasAttribute(e.class)
                    /\ sel[Len(sel)] = Selector("nth-child", t, info.index + 1)
        /\ elements_result.total_elements = Sound(element_types)
        /\ elements_result.total_elements
             = Len(elements_result.elements.input) + Len(elements_result.elements.button)
               + Len(elements_result.elements.a) + Len(elements_result.elements.form)

\* an element with id, name and class was reported behind one whose analysis failed
C23_Witness ==
    /\ Analyzed
    /\ Len(dom.input) = MaxElements
    /\ dom.input[1].raises
    /\ Len(elements_result.elements.input) = MaxElements - 1
    /\ Len(elements_result.elements.input[1].possible_selectors) = 4
    /\ elements_result.total_elements < Len(dom.input) + Len(dom.button) + Len(dom.a) + Len(dom.form)


----------------------------------------------------------------------------
(* C24: list_sessions has no cap on the number of page requests: against a  *)
(* backend that never returns an empty page and always reports a total      *)
(* above the number of ids accumulated, the loop keeps requesting the next  *)
(* page and the operation never returns an envelope; the page loop is the   *)
(* only loop of the client with this risk (no other operation repeats an    *)
(* SDK call).                                                               *)

EndlessListing == op = "list_sessions" /\ listBackend = "endless"

C24_NoPageCap ==
    /\ EndlessListing =>
         /\ pc = "page"
         /\ ret = NoResult
         /\ page = Len(trace) + 1
         /\ \A i \in 1..Len(trace) : trace[i].call = "list" /\ trace[i].page = i
    /\ (op # "list_sessions") =>
         \A i, j \in 1..Len(trace) : i < j => trace[i].call # trace[j].call

\* MaxPages pages were requested and the loop is about to request one more
C24_Witness ==
    /\ EndlessListing
    /\ Len(trace) = MaxPages
    /\ pc = "page"
    /\ Len(all_session_ids) >= MaxPages


----------------------------------------------------------------------------
(* C25: list_sessions is all-or-nothing: if any page request reports        *)
(* failure or raises, on the first page or after earlier pages were         *)
(* accumulated, it returns a failed envelope with data null and none of the *)
(* ids collected; a successful envelope is returned only when every page    *)
(* request of the call succeeded, and then count equals the number of       *)
(* returned sessions.                                                       *)

ListingDone == op = "list_sessions" /\ pc = "done"

SomePageFailed == \E i \in 1..Len(trace) : trace[i].outcome \in {"fail", "raise"}

C25_ListAllOrNothing ==
    ListingDone =>
        /\ SomePageFailed =>
             /\ ~ret.success
             /\ ret.data = Null
             /\ ret_payload = NoPayload
        /\ ret.success =>
             /\ \A i \in 1..Len(trace) : trace[i].outcome = "ok"
             /\ ret_payload.count = Len(ret_payload.sessions)
             /\ ret_payload.count = Len(all_session_ids)

\* a full page was collected, the second request failed, nothing was returned
C25_Witness ==
    /\ ListingDone
    /\ Len(trace) = 2
    /\ trace[1].outcome = "ok" /\ trace[2].outcome = "fail"
    /\ Len(all_session_ids) = limit
    /\ ~ret.success /\ ret_payload = NoPayload


----------------------------------------------------------------------------
(* C26: in the command execution tool every command string passed to        *)
(* client.execute_command satisfies validate_command: for all combinations  *)
(* of command and working_directory, the final string sent to the remote    *)
(* session (`cd <dir> && <command>`) matches no dangerous-command pattern.  *)

CommandSent == tool = "command_execute" /\ remote_calls > 0

C26_SentCommandValidated ==
    CommandSent => validate_command(PyStr(sent_command))


----------------------------------------------------------------------------
(* C27: whenever client.list_sessions returns a successful envelope, the    *)
(* session list tool emits a text message, then a JSON message carrying the *)
(* sessions and count, then a session_count variable and, when count > 0, a *)
(* first_session_id variable; it never ends in its exception path for a     *)
(* successful listing, whatever the number of sessions.                     *)

ListedSuccessfully ==
    /\ tool = "session_list"
    /\ toolPc = "done"
    /\ result.reached
    /\ result.success

C27_SessionListMessages ==
    ListedSuccessfully =>
        /\ Len(messages) = (IF result.count > 0 THEN 4 ELSE 3)
        /\ messages[1] = Text("result")
        /\ messages[2] = Json({"sessions", "count"}, 0)
        /\ messages[3] = Variable("session_count")
        /\ result.count > 0 => messages[4] = Variable("first_session_id")
        /\ \A i \in 1..Len(messages) : messages[i].role # "exception"

----------------------------------------------------------------------------
(* C28: in the browser automation tool a `type` action with a missing or    *)
(* empty text parameter is rejected by parameter validation, before the     *)
(* client is constructed and before any remote call; likewise click, type   *)
(* and wait_element with an empty selector and navigate with an empty url.  *)

\* the browser tool has run on parameters that pass the checks of the session id and
\* of the action
BrowserParamsChecked ==
    /\ tool = "browser_automation"
    /\ toolPc = "done"
    /\ session_id_errors(tool_parameters) = <<>>
    /\ tool_parameters.action \in SUPPORTED_ACTIONS("browser_automation")

LacksOperationParameter(p) ==
    \/ p.action = "type" /\ p.text = ""
    \/ p.action \in {"click", "type", "wait_element"} /\ p.selector = ""
    \/ p.action = "navigate" /\ p.url = ""

C28_TypeNeedsText ==
    (BrowserParamsChecked /\ LacksOperationParameter(tool_parameters)) =>
        /\ ~client_built
        /\ remote_calls = 0
        /\ messages = <<Text("error")>>


----------------------------------------------------------------------------
(* C29: in every Bridge invocation whose worker finishes, every handle      *)
(* acquired during the call has its release attempted by teardown: if the   *)
(* browser connection was opened its close is attempted, and if the         *)
(* automation driver was started its stop is attempted, including when      *)
(* closing the browser connection raises and when the connection attempt    *)
(* failed after the driver had started.                                     *)

\* the step of the worker in which close() runs
Teardown == workerPc = "close" /\ workerPc' = "loop_close"

C29_EveryHandleReleased ==
    [][Teardown =>
         /\ automation.browser => attempted'.browser
         /\ automation.playwright => attempted'.playwright]_vars


----------------------------------------------------------------------------
(* C30: session lifecycle across calls, with no other actor: after          *)
(* create_session returns success with session id s, session-scoped         *)
(* operations on s pass the existence check until delete_session(s) returns *)
(* success; after a successful delete_session(s) every later session-scoped *)
(* operation on s (a second delete_session(s) too) returns a failed         *)
(* envelope and never invokes its remote action; delete_session reports     *)
(* deleted only when the remote deletion reported success.                  *)

\* a session-scoped operation has made its existence check
Checked == op \in SessionOps /\ Len(trace) >= 1

\* the backend answered the check with the session
FoundByBackend == trace[1].outcome = "ok" /\ trace[1].carried

LifecycleNow ==
    /\ Checked =>
         /\ trace[1].call = "get_session" /\ trace[1].sid = arg_session
         /\ (trace[1].live /\ FoundByBackend) => session_info.success
         /\ ~trace[1].live =>
              /\ ~session_info.success
              /\ Len(trace) = 1
              /\ pc = "done"
              /\ ~ret.success
    /\ (op = "delete_session" /\ pc = "done" /\ ret.success) =>
         /\ trace[Len(trace)].call = "delete_session"
         /\ trace[Len(trace)].outcome = "ok"
         /\ ret.data = DataOf("delete_session")
         /\ arg_session \notin sessions

\* a session comes into being by a create_session that reports success, and goes only
\* by a delete_session for it that reports success
LifecycleStep ==
    \A s \in SessionIds :
        /\ (s \notin sessions /\ s \in sessions') =>
             op = "create_session" /\ pc' = "done" /\ ret'.success
        /\ (s \in sessions /\ s \notin sessions') =>
             op = "delete_session" /\ arg_session = s /\ pc' = "done" /\ ret'.success

====
